---------------------------- MODULE Spec2Model ----------------------------
(***************************************************************************)
(* Local data layer of TotTrackr (services/StorageService.ts): the entry   *)
(* store, the profile registry, the sleep and breast-feeding timers and    *)
(* the change bus, over an asynchronous key-value store whose calls may    *)
(* throw.                                                                  *)
(*                                                                         *)
(* A persisted key is modelled as a sequence of length 0 (key absent) or 1 *)
(* (key present, holding the parsed JSON value).  Every service function   *)
(* is an operator from a call context c (store contents st, number of      *)
(* store calls made n, writes made wr, change events published ev, store   *)
(* calls that threw err) and a set F of store calls that throw, to a       *)
(* result [c, ret, thrown].                                                *)
(***************************************************************************)
EXTENDS Integers, Sequences, FiniteSets, TLC

VARIABLES store, now, calls, migrated, dataListeners, loading

vars == <<store, now, calls, migrated, dataListeners, loading>>

-----------------------------------------------------------------------------
(* Bounds of the model *)

MaxEntries == 2
MaxWeights == 1
MaxLogged == 1
MaxTicks == 1
MaxElapse == 3
MaxLoads == 2
MaxHalfDays == 2
HalfDayMs == 43200000
TickMs == 62500

ProfileIds == {"p1", "p2"}
Names == {"Emma", "Noah"}
Sides == {"left", "right"}

\* JavaScript undefined (a field that is not set) for strings and numbers
Undefined == "undefined"
NoNum == -1

\* !x for a string-or-undefined x
Falsy(x) == x \in {Undefined, ""}

Min(S) == CHOOSE x \in S : \A y \in S : x <= y

-----------------------------------------------------------------------------
(* The key-value store *)

EmptyStore ==
  [ entries      |-> <<>>,
    weights      |-> <<>>,
    activeSleep  |-> <<>>,
    activeBreast |-> <<>>,
    babyProfile  |-> <<>>,
    babyProfiles |-> <<>>,
    activeBabyId |-> <<>>,
    preferences  |-> <<>> ]

\* the store as an operation has it, with what the operation did so far:
\* n store calls, wr of them writes, the set err of calls that threw, ev
\* change events published and, in seen, the store at each of them
\* and, of the change bus: the listeners ls subscribed while it runs, in
\* heard the listeners each of its events invoked, and in lerr whether one
\* of them threw
Ctx(st) ==
  [ st |-> st, n |-> 0, wr |-> 0, ev |-> 0, err |-> {}, seen |-> <<>>,
    ls |-> <<>>, heard |-> <<>>, lerr |-> FALSE ]

\* the same with the listeners ls subscribed
CtxBus(st, ls) == [Ctx(st) EXCEPT !.ls = ls]

\* An operation's failure input F is the set of store calls, <<kind, key>>,
\* that throw while it runs; at most one kind of call fails in one operation.
StoreCalls ==
  ({"get", "set"} \X {"entries", "weights", "activeSleep", "activeBreast",
                      "babyProfile", "babyProfiles", "activeBabyId"})
  \cup ({"remove"} \X {"activeSleep", "activeBreast"})
FailSets == {{}} \cup {{x} : x \in StoreCalls}

\* the next store call, of this kind on this key, throws
Fails(c, F, kind, k) == <<kind, k>> \in F

\* AsyncStorage.getItem(k) that succeeds, or any call that throws
GetItem(c) == [c EXCEPT !.n = @ + 1]
Throw(c, kind, k) == [c EXCEPT !.n = @ + 1, !.err = @ \cup {<<kind, k>>}]
SetItem(c, k, v) == [c EXCEPT !.n = @ + 1, !.wr = @ + 1, !.st[k] = <<v>>]
RemoveItem(c, k) == [c EXCEPT !.n = @ + 1, !.wr = @ + 1, !.st[k] = <<>>]

\* The change bus: dataListeners is a Set, kept here in its insertion
\* order.  The screens' listeners start a reload and return; a listener of
\* Throwing throws when it is invoked.
Screens == {"tracking", "history"}
LoadSteps == Screens \cup {"reading"}
Listeners == Screens \cup {"faulty"}
Throwing == {"faulty"}

\* dataListeners.add(fn)
onDataChanged(ls, fn) ==
  IF \E i \in 1..Len(ls) : ls[i] = fn THEN ls ELSE Append(ls, fn)

\* the function onDataChanged returned: dataListeners.delete(fn)
Unsubscribed(ls, fn) == SelectSeq(ls, LAMBDA x : x # fn)

\* the listeners forEach invokes: all of them, or those up to the first
\* that throws
Invoked(ls) ==
  LET thrower == {i \in 1..Len(ls) : ls[i] \in Throwing}
  IN IF thrower = {} THEN ls ELSE SubSeq(ls, 1, Min(thrower))

\* emitDataChanged that invokes the first listener only
emitDataChangedFirstOnly(c) ==
  [c EXCEPT !.ev = @ + 1, !.seen = Append(@, c.st),
            !.heard = Append(@, SubSeq(c.ls, 1, IF Len(c.ls) = 0 THEN 0 ELSE 1)),
            !.lerr = @ \/ (Len(c.ls) > 0 /\ c.ls[1] \in Throwing)]

emitDataChanged(c) ==
  [c EXCEPT !.ev = @ + 1, !.seen = Append(@, c.st),
            !.heard = Append(@, Invoked(c.ls)),
            !.lerr = @ \/ (\E i \in 1..Len(c.ls) : c.ls[i] \in Throwing)]

R(c, ret, thrown) == [c |-> c, ret |-> ret, thrown |-> thrown]

\* index of the first element of seq satisfying a test, 0 if none (findIndex)
FindIndexId(seq, id) ==
  LET hit == {i \in 1..Len(seq) : seq[i].id = id}
  IN IF hit = {} THEN 0 ELSE Min(hit)

-----------------------------------------------------------------------------
(* Profile registry *)

\* await: the rest of the caller, K, runs on the result r of the awaited
\* call, which is computed once
Then(r, K(_)) == CHOOSE x \in {K(v) : v \in {r}} : TRUE

RECURSIVE getAllBabyProfiles(_, _), setActiveBabyId(_, _, _)

\* getAllBabyProfiles that migrates the legacy profile without making it
\* the active one
getAllBabyProfilesNoActivate(c, F) ==
  IF Fails(c, F, "get", "babyProfiles") THEN R(Throw(c, "get", "babyProfiles"), <<>>, FALSE)
  ELSE
    LET c1 == GetItem(c)
        raw == c.st.babyProfiles
    IN IF raw # <<>> THEN R(c1, raw[1], FALSE)
       ELSE IF Fails(c1, F, "get", "babyProfile") THEN R(Throw(c1, "get", "babyProfile"), <<>>, FALSE)
       ELSE
         LET c2 == GetItem(c1)
             oldProfile == c.st.babyProfile
         IN IF oldProfile = <<>> THEN R(c2, <<>>, FALSE)
            ELSE IF Fails(c2, F, "set", "babyProfiles")
              THEN R(Throw(c2, "set", "babyProfiles"), <<>>, FALSE)
            ELSE R(SetItem(c2, "babyProfiles", <<oldProfile[1]>>), <<oldProfile[1]>>, FALSE)

getAllBabyProfiles(c, F) ==
  IF Fails(c, F, "get", "babyProfiles") THEN R(Throw(c, "get", "babyProfiles"), <<>>, FALSE)
  ELSE
    LET c1 == GetItem(c)
        raw == c.st.babyProfiles
    IN IF raw # <<>> THEN R(c1, raw[1], FALSE)
       ELSE IF Fails(c1, F, "get", "babyProfile") THEN R(Throw(c1, "get", "babyProfile"), <<>>, FALSE)
       ELSE
         LET c2 == GetItem(c1)
             oldProfile == c.st.babyProfile
         IN IF oldProfile = <<>> THEN R(c2, <<>>, FALSE)
            ELSE IF Fails(c2, F, "set", "babyProfiles")
              THEN R(Throw(c2, "set", "babyProfiles"), <<>>, FALSE)
            ELSE
              Then(setActiveBabyId(SetItem(c2, "babyProfiles", <<oldProfile[1]>>),
                                   F, oldProfile[1].id),
                   LAMBDA r : R(r.c, <<oldProfile[1]>>, FALSE))

setActiveBabyId(c, F, babyId) ==
  IF Fails(c, F, "set", "activeBabyId") THEN R(Throw(c, "set", "activeBabyId"), <<>>, FALSE)
  ELSE
    Then(getAllBabyProfiles(SetItem(c, "activeBabyId", babyId), F), LAMBDA r :
      LET idx == FindIndexId(r.ret, babyId)
      IN IF idx = 0 THEN R(emitDataChanged(r.c), <<>>, FALSE)
         ELSE IF Fails(r.c, F, "set", "babyProfile") THEN R(Throw(r.c, "set", "babyProfile"), <<>>, FALSE)
         ELSE R(emitDataChanged(SetItem(r.c, "babyProfile", r.ret[idx])), <<>>, FALSE))

\* getActiveBabyId that does not fall back on the first profile
getActiveBabyIdNoAdopt(c, F) ==
  IF Fails(c, F, "get", "activeBabyId") THEN R(Throw(c, "get", "activeBabyId"), "", FALSE)
  ELSE
    LET c1 == GetItem(c)
        id == c.st.activeBabyId
    IN IF id # <<>> /\ id[1] # "" THEN R(c1, id[1], FALSE) ELSE R(c1, "", FALSE)

getActiveBabyId(c, F) ==
  IF Fails(c, F, "get", "activeBabyId") THEN R(Throw(c, "get", "activeBabyId"), "", FALSE)
  ELSE
    LET c1 == GetItem(c)
        id == c.st.activeBabyId
    IN IF id # <<>> /\ id[1] # "" THEN R(c1, id[1], FALSE)
       ELSE
         Then(getAllBabyProfiles(c1, F), LAMBDA r :
           IF Len(r.ret) > 0
             THEN Then(setActiveBabyId(r.c, F, r.ret[1].id),
                       LAMBDA r2 : R(r2.c, r.ret[1].id, FALSE))
             ELSE R(r.c, "", FALSE))

\* saveBabyProfile that pushes the profile whether or not its id is listed
saveBabyProfileAppend(c, F, profile) ==
  Then(getAllBabyProfiles(c, F), LAMBDA r :
    IF Fails(r.c, F, "set", "babyProfiles") THEN R(Throw(r.c, "set", "babyProfiles"), <<>>, TRUE)
    ELSE
      Then(getActiveBabyId(SetItem(r.c, "babyProfiles", Append(r.ret, profile)), F), LAMBDA a :
        IF profile.id # a.ret THEN R(emitDataChanged(a.c), <<>>, FALSE)
        ELSE IF Fails(a.c, F, "set", "babyProfile") THEN R(Throw(a.c, "set", "babyProfile"), <<>>, TRUE)
        ELSE R(emitDataChanged(SetItem(a.c, "babyProfile", profile)), <<>>, FALSE)))

saveBabyProfile(c, F, profile) ==
  Then(getAllBabyProfiles(c, F), LAMBDA r :
    LET index == FindIndexId(r.ret, profile.id)
        profiles == IF index > 0 THEN [r.ret EXCEPT ![index] = profile]
                    ELSE Append(r.ret, profile)
    IN IF Fails(r.c, F, "set", "babyProfiles") THEN R(Throw(r.c, "set", "babyProfiles"), <<>>, TRUE)
       ELSE
         Then(getActiveBabyId(SetItem(r.c, "babyProfiles", profiles), F), LAMBDA a :
           IF profile.id # a.ret THEN R(emitDataChanged(a.c), <<>>, FALSE)
           ELSE IF Fails(a.c, F, "set", "babyProfile") THEN R(Throw(a.c, "set", "babyProfile"), <<>>, TRUE)
           ELSE R(emitDataChanged(SetItem(a.c, "babyProfile", profile)), <<>>, FALSE)))

\* the rows of a list whose babyId is not profileId
NotOf(rows, profileId) == SelectSeq(rows, LAMBDA e : e.babyId # profileId)

\* deleteBabyProfile without the cascade to the weight list
deleteBabyProfileKeepWeights(c, F, profileId) ==
  Then(getAllBabyProfiles(c, F), LAMBDA r :
  LET filtered == SelectSeq(r.ret, LAMBDA p : p.id # profileId)
  IN IF Fails(r.c, F, "set", "babyProfiles")
       THEN R(Throw(r.c, "set", "babyProfiles"), <<>>, FALSE)
     ELSE
       LET c1 == SetItem(r.c, "babyProfiles", filtered)
       IN IF Fails(c1, F, "get", "entries") THEN R(Throw(c1, "get", "entries"), <<>>, FALSE)
          ELSE
            LET c2 == GetItem(c1)
                allEntries == c1.st.entries
                failE == allEntries # <<>> /\ Fails(c2, F, "set", "entries")
                c3 == IF allEntries = <<>> THEN c2
                      ELSE SetItem(c2, "entries", NotOf(allEntries[1], profileId))
            IN IF failE THEN R(Throw(c2, "set", "entries"), <<>>, FALSE)
               ELSE R(emitDataChanged(c3), <<>>, FALSE))

deleteBabyProfile(c, F, profileId) ==
  Then(getAllBabyProfiles(c, F), LAMBDA r :
  LET filtered == SelectSeq(r.ret, LAMBDA p : p.id # profileId)
  IN IF Fails(r.c, F, "set", "babyProfiles") THEN R(Throw(r.c, "set", "babyProfiles"), <<>>, FALSE)
     ELSE
       LET c1 == SetItem(r.c, "babyProfiles", filtered)
       IN IF Fails(c1, F, "get", "entries") THEN R(Throw(c1, "get", "entries"), <<>>, FALSE)
          ELSE
            LET c2 == GetItem(c1)
                allEntries == c1.st.entries
                failE == allEntries # <<>> /\ Fails(c2, F, "set", "entries")
                c3 == IF allEntries = <<>> THEN c2
                      ELSE SetItem(c2, "entries", NotOf(allEntries[1], profileId))
            IN IF failE THEN R(Throw(c2, "set", "entries"), <<>>, FALSE)
               ELSE IF Fails(c3, F, "get", "weights") THEN R(Throw(c3, "get", "weights"), <<>>, FALSE)
               ELSE
                 LET c4 == GetItem(c3)
                     raw == c3.st.weights
                     failW == raw # <<>> /\ Fails(c4, F, "set", "weights")
                     c5 == IF raw = <<>> THEN c4
                           ELSE SetItem(c4, "weights", NotOf(raw[1], profileId))
                 IN IF failW THEN R(Throw(c4, "set", "weights"), <<>>, FALSE)
                    ELSE R(emitDataChanged(c5), <<>>, FALSE))

\* the active profile's record, or the legacy single profile, or null
getBabyProfile(c, F) ==
  Then(getActiveBabyId(c, F), LAMBDA activeId :
    IF activeId.ret = ""
      THEN IF Fails(activeId.c, F, "get", "babyProfile")
             THEN R(Throw(activeId.c, "get", "babyProfile"), <<>>, FALSE)
           ELSE R(GetItem(activeId.c), activeId.c.st.babyProfile, FALSE)
    ELSE
      Then(getAllBabyProfiles(activeId.c, F), LAMBDA profiles :
        LET idx == FindIndexId(profiles.ret, activeId.ret)
        IN R(profiles.c, IF idx = 0 THEN <<>> ELSE <<profiles.ret[idx]>>, FALSE)))

-----------------------------------------------------------------------------
(* The profile screen.  Its handlers read the component state that the      *)
(* loadProfiles() ending the previous handler, or the mount, has set.       *)

loadProfiles(c, F) ==
  Then(getAllBabyProfiles(c, F), LAMBDA allProfiles :
    Then(getActiveBabyId(allProfiles.c, F), LAMBDA activeId :
      R(activeId.c, [profiles |-> allProfiles.ret, activeProfileId |-> activeId.ret],
        FALSE)))

handleSaveNewProfile(c, F, newProfile) ==
  Then(loadProfiles(c, F), LAMBDA state :
    Then(saveBabyProfile(state.c, F, newProfile), LAMBDA saved :
      IF saved.thrown THEN saved
      ELSE IF Len(state.ret.profiles) = 0
        THEN setActiveBabyId(saved.c, F, newProfile.id)
      ELSE saved))

\* handleDeleteProfile that leaves the active id to the store
handleDeleteProfileNoSwitch(c, F, profileId) ==
  Then(loadProfiles(c, F), LAMBDA state :
    IF Len(state.ret.profiles) > 1 /\ FindIndexId(state.ret.profiles, profileId) # 0
      THEN deleteBabyProfile(state.c, F, profileId)
    ELSE state)

\* the delete button is rendered when profiles.length > 1
handleDeleteProfile(c, F, profileId) ==
  Then(loadProfiles(c, F), LAMBDA state :
    IF Len(state.ret.profiles) > 1 /\ FindIndexId(state.ret.profiles, profileId) # 0
      THEN
        Then(deleteBabyProfile(state.c, F, profileId), LAMBDA deleted :
          LET remaining == SelectSeq(state.ret.profiles, LAMBDA p : p.id # profileId)
          IN IF profileId = state.ret.activeProfileId /\ Len(remaining) > 0
               THEN setActiveBabyId(deleted.c, F, remaining[1].id)
             ELSE deleted)
    ELSE state)

-----------------------------------------------------------------------------
(* Entry store *)

\* the entries visible to profile activeId
VisibleTo(rows, activeId) ==
  SelectSeq(rows, LAMBDA e : Falsy(e.babyId) \/ e.babyId = activeId)

\* a list that replaces the stored one by the new entry alone
PushedAlone(entries, entry) == <<entry>>

\* entries.push(entry)
Pushed(entries, entry) == Append(entries, entry)

\* getEntries without the profile filter
getEntriesUnfiltered(c, F) ==
  IF Fails(c, F, "get", "entries") THEN R(Throw(c, "get", "entries"), <<>>, FALSE)
  ELSE
    LET c1 == GetItem(c)
        raw == c.st.entries
    IN IF raw = <<>> THEN R(c1, <<>>, FALSE)
       ELSE Then(getActiveBabyId(c1, F), LAMBDA a : R(a.c, raw[1], FALSE))

getEntries(c, F) ==
  IF Fails(c, F, "get", "entries") THEN R(Throw(c, "get", "entries"), <<>>, FALSE)
  ELSE
    LET c1 == GetItem(c)
        raw == c.st.entries
    IN IF raw = <<>> THEN R(c1, <<>>, FALSE)
       ELSE
         Then(getActiveBabyId(c1, F), LAMBDA a :
           IF a.ret = "" THEN R(a.c, raw[1], FALSE)
           ELSE R(a.c, VisibleTo(raw[1], a.ret), FALSE))

\* saveEntry that leaves an entry without babyId as it is
saveEntryNoStamp(c, F, entry) ==
  IF Fails(c, F, "get", "entries")
    THEN [c |-> Throw(c, "get", "entries"), ret |-> FALSE, thrown |-> FALSE, entry |-> entry]
  ELSE
    LET c1 == GetItem(c)
    IN IF Fails(c1, F, "set", "entries")
         THEN [c |-> Throw(c1, "set", "entries"), ret |-> FALSE, thrown |-> FALSE, entry |-> entry]
       ELSE [c |-> emitDataChanged(SetItem(c1, "entries", Append(IF c.st.entries = <<>> THEN <<>> ELSE c.st.entries[1], entry))),
             ret |-> TRUE, thrown |-> FALSE, entry |-> entry]

\* saveEntry whose catch block reports success
saveEntryTrueOnFailure(c, F, entry) ==
  Then(IF Falsy(entry.babyId) THEN getActiveBabyId(c, F) ELSE R(c, "", FALSE),
       LAMBDA a :
  LET stamped == IF Falsy(entry.babyId) /\ a.ret # ""
                   THEN [entry EXCEPT !.babyId = a.ret] ELSE entry
      RE(cc, ret) == [c |-> cc, ret |-> ret, thrown |-> FALSE, entry |-> stamped]
  IN IF Fails(a.c, F, "get", "entries") THEN RE(Throw(a.c, "get", "entries"), TRUE)
     ELSE
       LET c1 == GetItem(a.c)
           raw == a.c.st.entries
           entries == IF raw = <<>> THEN <<>> ELSE raw[1]
       IN IF Fails(c1, F, "set", "entries") THEN RE(Throw(c1, "set", "entries"), TRUE)
          ELSE RE(emitDataChanged(SetItem(c1, "entries", Append(entries, stamped))), TRUE))

\* saveEntry that publishes the change event before the write
saveEntryEmitFirst(c, F, entry) ==
  Then(IF Falsy(entry.babyId) THEN getActiveBabyId(c, F) ELSE R(c, "", FALSE),
       LAMBDA a :
  LET stamped == IF Falsy(entry.babyId) /\ a.ret # ""
                   THEN [entry EXCEPT !.babyId = a.ret] ELSE entry
      RE(cc, ret) == [c |-> cc, ret |-> ret, thrown |-> FALSE, entry |-> stamped]
  IN IF Fails(a.c, F, "get", "entries") THEN RE(Throw(a.c, "get", "entries"), FALSE)
     ELSE
       LET c1 == emitDataChanged(GetItem(a.c))
           raw == a.c.st.entries
           entries == IF raw = <<>> THEN <<>> ELSE raw[1]
       IN IF Fails(c1, F, "set", "entries") THEN RE(Throw(c1, "set", "entries"), FALSE)
          ELSE RE(SetItem(c1, "entries", Append(entries, stamped)), TRUE))

\* the result carries the entry object as the call leaves it (babyId stamped)
saveEntry(c, F, entry) ==
  Then(IF Falsy(entry.babyId) THEN getActiveBabyId(c, F) ELSE R(c, "", FALSE),
       LAMBDA a :
  LET stamped == IF Falsy(entry.babyId) /\ a.ret # ""
                   THEN [entry EXCEPT !.babyId = a.ret] ELSE entry
      RE(cc, ret) == [c |-> cc, ret |-> ret, thrown |-> FALSE, entry |-> stamped]
  IN IF Fails(a.c, F, "get", "entries") THEN RE(Throw(a.c, "get", "entries"), FALSE)
     ELSE
       LET c1 == GetItem(a.c)
           raw == a.c.st.entries
           entries == IF raw = <<>> THEN <<>> ELSE raw[1]
       IN IF Fails(c1, F, "set", "entries") THEN RE(Throw(c1, "set", "entries"), FALSE)
          ELSE
            \* a listener's exception leaves emitDataChanged and is caught here
            LET c2 == emitDataChanged(SetItem(c1, "entries", Pushed(entries, stamped)))
            IN RE(c2, ~c2.lerr))

\* { ...e, ...updates }
Merged(e, updates) ==
  [k \in DOMAIN e |-> IF k \in DOMAIN updates THEN updates[k] ELSE e[k]]

\* updateEntry that looks the id up among the active profile's entries
updateEntryVisibleOnly(c, F, id, updates) ==
  Then(getEntries(c, F), LAMBDA g :
    LET idx == FindIndexId(g.ret, id)
    IN IF idx = 0 THEN R(g.c, FALSE, FALSE)
       ELSE R(emitDataChanged(SetItem(g.c, "entries",
                [g.ret EXCEPT ![idx] = Merged(g.ret[idx], updates)])), TRUE, FALSE))

updateEntry(c, F, id, updates) ==
  IF Fails(c, F, "get", "entries") THEN R(Throw(c, "get", "entries"), FALSE, FALSE)
  ELSE
    LET c1 == GetItem(c)
        raw == c.st.entries
        idx == IF raw = <<>> THEN 0 ELSE FindIndexId(raw[1], id)
    IN IF raw = <<>> THEN R(c1, FALSE, FALSE)
       ELSE IF idx = 0 THEN R(c1, FALSE, FALSE)
       ELSE IF Fails(c1, F, "set", "entries") THEN R(Throw(c1, "set", "entries"), FALSE, FALSE)
       ELSE R(emitDataChanged(SetItem(c1, "entries",
                [raw[1] EXCEPT ![idx] = Merged(raw[1][idx], updates)])), TRUE, FALSE)

-----------------------------------------------------------------------------
(* Daily summaries.  A Date is its time in ms; its day,                     *)
(* toISOString().split('T')[0], is the number of whole UTC days before it,  *)
(* and the order of the date strings is the order of these numbers.         *)

Day(t) == t \div 86400000

\* the summary a day enters the map with
NewSummary(day) ==
  [ date |-> day, totalFeedings |-> 0, totalDiapers |-> 0, totalSleep |-> 0,
    lastFeeding |-> NoNum, lastDiaper |-> NoNum ]

\* one pass of the loop body on the day's summary; if (entry.duration)
\* skips an undefined and a zero duration
Counted(summary, entry) ==
  IF entry.type = "feeding"
    THEN [summary EXCEPT !.totalFeedings = @ + 1, !.lastFeeding = entry.timestamp]
  ELSE IF entry.type = "diaper"
    THEN [summary EXCEPT !.totalDiapers = @ + 1, !.lastDiaper = entry.timestamp]
  ELSE IF entry.type = "sleep" /\ entry.duration # NoNum /\ entry.duration # 0
    THEN [summary EXCEPT !.totalSleep = @ + entry.duration]
  ELSE summary

\* summaryMap, in insertion order, after the loop's first n entries
RECURSIVE SummaryMap(_, _)
SummaryMap(entries, n) ==
  IF n = 0 THEN <<>>
  ELSE
    LET prev == SummaryMap(entries, n - 1)
        day == Day(entries[n].timestamp)
        map == IF \E i \in 1..Len(prev) : prev[i].date = day
                 THEN prev ELSE Append(prev, NewSummary(day))
    IN [i \in 1..Len(map) |->
          IF map[i].date = day THEN Counted(map[i], entries[n]) ELSE map[i]]

\* summaries.sort((a, b) => (a.date < b.date ? 1 : -1)) of summaries of
\* distinct dates
RECURSIVE SortedLatestFirst(_)
SortedLatestFirst(S) ==
  IF S = {} THEN <<>>
  ELSE LET latest == CHOOSE x \in S : \A y \in S : y.date <= x.date
       IN <<latest>> \o SortedLatestFirst(S \ {latest})

\* the filter on start and end, each absent or a Date
InDates(summaries, startDate, endDate) ==
  { summaries[i] : i \in { j \in 1..Len(summaries) :
      /\ startDate = <<>> \/ summaries[j].date >= Day(startDate[1])
      /\ endDate = <<>> \/ summaries[j].date <= Day(endDate[1]) } }

\* getDailySummaries over the entries of every profile
getDailySummariesAllProfiles(c, F, startDate, endDate) ==
  Then(getEntriesUnfiltered(c, F), LAMBDA g :
    R(g.c, SortedLatestFirst(InDates(SummaryMap(g.ret, Len(g.ret)),
                                     startDate, endDate)), FALSE))

getDailySummaries(c, F, startDate, endDate) ==
  Then(getEntries(c, F), LAMBDA g :
    R(g.c, SortedLatestFirst(InDates(SummaryMap(g.ret, Len(g.ret)),
                                     startDate, endDate)), FALSE))

\* res[0] || null
getDailySummary(c, F, date) ==
  Then(getDailySummaries(c, F, <<date>>, <<date>>), LAMBDA res :
    R(res.c, IF res.ret = <<>> THEN <<>> ELSE <<res.ret[1]>>, FALSE))

\* entries.filter(e => day of e.timestamp === day of date)
getEntriesByDate(c, F, date) ==
  Then(getEntries(c, F), LAMBDA g :
    R(g.c, SelectSeq(g.ret, LAMBDA e : Day(e.timestamp) = Day(date)), FALSE))

-----------------------------------------------------------------------------
(* Weights *)

getWeightEntries(c, F) ==
  IF Fails(c, F, "get", "weights") THEN R(Throw(c, "get", "weights"), <<>>, FALSE)
  ELSE
    LET c1 == GetItem(c)
        raw == c.st.weights
    IN IF raw = <<>> THEN R(c1, <<>>, FALSE)
       ELSE
         Then(getActiveBabyId(c1, F), LAMBDA a :
           IF a.ret = "" THEN R(a.c, raw[1], FALSE)
           ELSE R(a.c, VisibleTo(raw[1], a.ret), FALSE))

saveWeightEntry(c, F, entry) ==
  Then(IF Falsy(entry.babyId) THEN getActiveBabyId(c, F) ELSE R(c, "", FALSE),
       LAMBDA a :
  LET stamped == IF Falsy(entry.babyId) /\ a.ret # ""
                   THEN [entry EXCEPT !.babyId = a.ret] ELSE entry
  IN Then(getWeightEntries(a.c, F), LAMBDA w :
     IF Fails(w.c, F, "set", "weights") THEN R(Throw(w.c, "set", "weights"), <<>>, TRUE)
     ELSE R(emitDataChanged(SetItem(w.c, "weights", Append(w.ret, stamped))), <<>>, FALSE)))

-----------------------------------------------------------------------------
(* Export and import *)

Max(S) == CHOOSE x \in S : \A y \in S : y <= x

\* the document exported at time t
exportData(c, F, t) ==
  Then(getEntries(c, F), LAMBDA entries :
    Then(getWeightEntries(entries.c, F), LAMBDA weights :
      Then(getBabyProfile(weights.c, F), LAMBDA baby :
        LET timestamps == { entries.ret[i].timestamp : i \in 1..Len(entries.ret) }
        IN R(baby.c,
             [ entries |-> entries.ret,
               weights |-> weights.ret,
               baby |-> IF baby.ret = <<>> THEN [id |-> "local-baby", name |-> "Baby"]
                        ELSE baby.ret[1],
               startDate |-> IF timestamps = {} THEN t ELSE Min(timestamps),
               endDate |-> IF timestamps = {} THEN t ELSE Max(timestamps),
               generatedAt |-> t ],
             FALSE))))

\* the document's arrays and objects are truthy, so all three keys are set
importData(c, F, data) ==
  IF Fails(c, F, "set", "entries") THEN R(Throw(c, "set", "entries"), <<>>, TRUE)
  ELSE
    LET c1 == SetItem(c, "entries", data.entries)
    IN IF Fails(c1, F, "set", "weights") THEN R(Throw(c1, "set", "weights"), <<>>, TRUE)
       ELSE
         LET c2 == SetItem(c1, "weights", data.weights)
         IN IF Fails(c2, F, "set", "babyProfile")
              THEN R(Throw(c2, "set", "babyProfile"), <<>>, TRUE)
            ELSE R(emitDataChanged(SetItem(c2, "babyProfile", data.baby)), <<>>, FALSE)

-----------------------------------------------------------------------------
(* Migration of rows without babyId *)

\* a map that stamps every row, also one that has a babyId
StampedAll(rows, firstBabyId) ==
  [i \in 1..Len(rows) |-> [rows[i] EXCEPT !.babyId = firstBabyId]]

\* rows.map(e => !e.babyId ? { ...e, babyId: firstBabyId } : e)
Stamped(rows, firstBabyId) ==
  [i \in 1..Len(rows) |->
     IF Falsy(rows[i].babyId) THEN [rows[i] EXCEPT !.babyId = firstBabyId]
     ELSE rows[i]]

\* the flag migrated of the map callback
Unowned(rows) == \E i \in 1..Len(rows) : Falsy(rows[i].babyId)

migrateOldEntriesToFirstProfile(c, F) ==
  Then(getAllBabyProfiles(c, F), LAMBDA r :
    IF Len(r.ret) = 0 THEN R(r.c, <<>>, FALSE)
    ELSE IF Fails(r.c, F, "get", "entries") THEN R(Throw(r.c, "get", "entries"), <<>>, FALSE)
    ELSE
      LET firstBabyId == r.ret[1].id
          c1 == GetItem(r.c)
          entriesRaw == r.c.st.entries
          writeE == entriesRaw # <<>> /\ Unowned(entriesRaw[1])
          c2 == IF writeE
                  THEN SetItem(c1, "entries", Stamped(entriesRaw[1], firstBabyId))
                  ELSE c1
      IN IF writeE /\ Fails(c1, F, "set", "entries")
           THEN R(Throw(c1, "set", "entries"), <<>>, FALSE)
         ELSE IF Fails(c2, F, "get", "weights") THEN R(Throw(c2, "get", "weights"), <<>>, FALSE)
         ELSE
           LET c3 == GetItem(c2)
               weightsRaw == r.c.st.weights
               writeW == weightsRaw # <<>> /\ Unowned(weightsRaw[1])
               c4 == IF writeW
                       THEN SetItem(c3, "weights", Stamped(weightsRaw[1], firstBabyId))
                       ELSE c3
           IN IF writeW /\ Fails(c3, F, "set", "weights")
                THEN R(Throw(c3, "set", "weights"), <<>>, FALSE)
              ELSE R(emitDataChanged(c4), <<>>, FALSE))

-----------------------------------------------------------------------------
(* Preferences.  A preferences object, whole or partial, is a record of the *)
(* fields it has.                                                           *)

DEFAULT_PREFERENCES ==
  [ handPreference |-> "right", showActionLabels |-> TRUE,
    units |-> [volume |-> "imperial", weight |-> "imperial"],
    darkMode |-> FALSE, hapticFeedback |-> TRUE ]

\* { ...a, ...b }
Spread(a, b) ==
  [k \in DOMAIN a \cup DOMAIN b |-> IF k \in DOMAIN b THEN b[k] ELSE a[k]]

\* x.units || {}
UnitsOf(x) == IF "units" \in DOMAIN x THEN x.units ELSE <<>>

loadPreferences(c, F) ==
  IF Fails(c, F, "get", "preferences")
    THEN R(Throw(c, "get", "preferences"), DEFAULT_PREFERENCES, FALSE)
  ELSE
    LET raw == c.st.preferences
    IN IF raw = <<>> THEN R(GetItem(c), DEFAULT_PREFERENCES, FALSE)
       ELSE R(GetItem(c),
              [Spread(DEFAULT_PREFERENCES, raw[1]) EXCEPT
                 !.units = Spread(DEFAULT_PREFERENCES.units, UnitsOf(raw[1]))],
              FALSE)

savePreferences(c, F, prefs) ==
  IF Fails(c, F, "set", "preferences") THEN R(Throw(c, "set", "preferences"), <<>>, TRUE)
  ELSE R(emitDataChanged(SetItem(c, "preferences", prefs)), <<>>, FALSE)

\* updatePreferences whose units are the update's alone
updatePreferencesShallow(c, F, updates) ==
  Then(loadPreferences(c, F), LAMBDA l :
    savePreferences(l.c, F, Spread(l.ret, updates)))

updatePreferences(c, F, updates) ==
  Then(loadPreferences(c, F), LAMBDA l :
    savePreferences(l.c, F,
      [Spread(l.ret, updates) EXCEPT
         !.units = Spread(l.ret.units, UnitsOf(updates))]))

-----------------------------------------------------------------------------
(* Records *)

\* an Entry with only the common fields set
Entry(id, type, timestamp, babyId) ==
  [ id |-> id, type |-> type, timestamp |-> timestamp, babyId |-> babyId,
    isActive |-> FALSE, startTime |-> NoNum, endTime |-> NoNum,
    duration |-> NoNum, feedingType |-> Undefined, amount |-> NoNum,
    breastSide |-> Undefined ]

\* `${prefix}${n}`; now.toString() is the id with the empty prefix
Id(prefix, n) == <<prefix, n>>

\* the minutes rounded up instead of down
MinutesUp(startTime, endTime) == (endTime - startTime + 59999) \div 60000

\* Math.floor((endTime - startTime) / 1000 / 60)
Minutes(startTime, endTime) == (endTime - startTime) \div 60000

-----------------------------------------------------------------------------
(* Sleep timer *)

\* saveActiveSleep that keeps a record already stored
saveActiveSleepKeepFirst(c, F, sleep) ==
  IF Fails(c, F, "set", "activeSleep") THEN R(Throw(c, "set", "activeSleep"), <<>>, TRUE)
  ELSE IF c.st.activeSleep # <<>> THEN R(emitDataChanged(GetItem(c)), <<>>, FALSE)
  ELSE R(emitDataChanged(SetItem(c, "activeSleep", sleep)), <<>>, FALSE)

saveActiveSleep(c, F, sleep) ==
  IF Fails(c, F, "set", "activeSleep") THEN R(Throw(c, "set", "activeSleep"), <<>>, TRUE)
  ELSE R(emitDataChanged(SetItem(c, "activeSleep", sleep)), <<>>, FALSE)

\* getActiveSleep without the comparison with the active profile
getActiveSleepAnyProfile(c, F) ==
  IF Fails(c, F, "get", "activeSleep") THEN R(Throw(c, "get", "activeSleep"), <<>>, FALSE)
  ELSE
    LET c1 == GetItem(c)
        raw == c.st.activeSleep
    IN IF raw = <<>> THEN R(c1, <<>>, FALSE)
       ELSE Then(getActiveBabyId(c1, F), LAMBDA a : R(a.c, raw, FALSE))

getActiveSleep(c, F) ==
  IF Fails(c, F, "get", "activeSleep") THEN R(Throw(c, "get", "activeSleep"), <<>>, FALSE)
  ELSE
    LET c1 == GetItem(c)
        raw == c.st.activeSleep
    IN IF raw = <<>> THEN R(c1, <<>>, FALSE)
       ELSE
         Then(getActiveBabyId(c1, F), LAMBDA a :
           IF ~Falsy(raw[1].babyId) /\ raw[1].babyId # a.ret
             THEN R(a.c, <<>>, FALSE)
             ELSE R(a.c, raw, FALSE))

clearActiveSleep(c, F) ==
  IF Fails(c, F, "remove", "activeSleep") THEN R(Throw(c, "remove", "activeSleep"), <<>>, TRUE)
  ELSE R(RemoveItem(c, "activeSleep"), <<>>, FALSE)

startSleepTimer(c, F, t) ==
  Then(getActiveBabyId(c, F), LAMBDA a :
    LET sleepEntry == [Entry(Id("", t), "sleep", t, a.ret) EXCEPT
                         !.startTime = t, !.duration = 0, !.isActive = TRUE]
    IN Then(saveActiveSleep(a.c, F, sleepEntry), LAMBDA s :
         IF s.thrown THEN R(s.c, <<>>, TRUE) ELSE R(s.c, <<sleepEntry>>, FALSE)))

\* stopSleepTimer that leaves the active record in place
stopSleepTimerNoClear(c, F, t) ==
  Then(getActiveSleep(c, F), LAMBDA g :
    IF g.ret = <<>> THEN R(g.c, <<>>, FALSE)
    ELSE
      LET activeSleep == g.ret[1]
          completed == [activeSleep EXCEPT
                          !.endTime = t,
                          !.duration = Minutes(activeSleep.startTime, t),
                          !.isActive = FALSE]
      IN Then(saveEntry(g.c, F, completed), LAMBDA s : R(s.c, <<s.entry>>, FALSE)))

\* stopSleepTimer that logs a sleep entry before it looks for the record
stopSleepTimerLateCheck(c, F, t) ==
  Then(getActiveSleep(c, F), LAMBDA g :
    LET startTime == IF g.ret = <<>> THEN t ELSE g.ret[1].startTime
        base == IF g.ret = <<>> THEN Entry(Id("", t), "sleep", t, Undefined)
                ELSE g.ret[1]
        completed == [base EXCEPT !.startTime = startTime, !.endTime = t,
                                  !.duration = Minutes(startTime, t),
                                  !.isActive = FALSE]
    IN Then(saveEntry(g.c, F, completed), LAMBDA s :
         IF g.ret = <<>> THEN R(s.c, <<>>, FALSE)
         ELSE Then(clearActiveSleep(s.c, F), LAMBDA cl :
                IF cl.thrown THEN R(cl.c, <<>>, FALSE)
                ELSE R(cl.c, <<s.entry>>, FALSE))))

stopSleepTimer(c, F, t) ==
  Then(getActiveSleep(c, F), LAMBDA g :
    IF g.ret = <<>> THEN R(g.c, <<>>, FALSE)
    ELSE
      LET activeSleep == g.ret[1]
          completed == [activeSleep EXCEPT
                          !.endTime = t,
                          !.duration = Minutes(activeSleep.startTime, t),
                          !.isActive = FALSE]
      IN Then(saveEntry(g.c, F, completed), LAMBDA s :
           Then(clearActiveSleep(s.c, F), LAMBDA cl :
             IF cl.thrown THEN R(cl.c, <<>>, FALSE)
             ELSE R(cl.c, <<s.entry>>, FALSE))))

-----------------------------------------------------------------------------
(* Breast-feeding timer *)

startBreastTimer(c, F, t, side) ==
  Then(getActiveBabyId(c, F), LAMBDA a :
    LET session == [ id |-> Id("", t), startTime |-> t, side |-> side,
                     isActive |-> TRUE, babyId |-> a.ret ]
    IN IF Fails(a.c, F, "set", "activeBreast") THEN R(Throw(a.c, "set", "activeBreast"), <<>>, TRUE)
       ELSE R(emitDataChanged(SetItem(a.c, "activeBreast", session)), <<session>>, FALSE))

getActiveBreast(c, F) ==
  IF Fails(c, F, "get", "activeBreast") THEN R(Throw(c, "get", "activeBreast"), <<>>, FALSE)
  ELSE
    LET c1 == GetItem(c)
        raw == c.st.activeBreast
    IN IF raw = <<>> THEN R(c1, <<>>, FALSE)
       ELSE
         Then(getActiveBabyId(c1, F), LAMBDA a :
           IF ~Falsy(raw[1].babyId) /\ raw[1].babyId # a.ret
             THEN R(a.c, <<>>, FALSE)
             ELSE R(a.c, raw, FALSE))

clearActiveBreast(c, F) ==
  IF Fails(c, F, "remove", "activeBreast") THEN R(Throw(c, "remove", "activeBreast"), <<>>, FALSE)
  ELSE R(emitDataChanged(RemoveItem(c, "activeBreast")), <<>>, FALSE)

\* stopBreastTimer that dates the entry at the stop
stopBreastTimerEndStamp(c, F, t) ==
  Then(getActiveBreast(c, F), LAMBDA g :
    IF g.ret = <<>> THEN R(g.c, <<>>, FALSE)
    ELSE
      LET activeBreast == g.ret[1]
          entry == [Entry(Id("feeding_", t), "feeding", t, Undefined) EXCEPT
                      !.feedingType = "breast", !.amount = 0,
                      !.breastSide = activeBreast.side,
                      !.duration = Minutes(activeBreast.startTime, t),
                      !.endTime = t,
                      !.isActive = FALSE]
      IN Then(saveEntry(g.c, F, entry), LAMBDA s :
           Then(clearActiveBreast(s.c, F), LAMBDA cl : R(cl.c, <<s.entry>>, FALSE))))

stopBreastTimer(c, F, t) ==
  Then(getActiveBreast(c, F), LAMBDA g :
    IF g.ret = <<>> THEN R(g.c, <<>>, FALSE)
    ELSE
      LET activeBreast == g.ret[1]
          entry == [Entry(Id("feeding_", t), "feeding", activeBreast.startTime,
                          Undefined) EXCEPT
                      !.feedingType = "breast", !.amount = 0,
                      !.breastSide = activeBreast.side,
                      !.duration = Minutes(activeBreast.startTime, t),
                      !.endTime = t,
                      !.isActive = FALSE]
      IN Then(saveEntry(g.c, F, entry), LAMBDA s :
           Then(clearActiveBreast(s.c, F), LAMBDA cl : R(cl.c, <<s.entry>>, FALSE))))

-----------------------------------------------------------------------------
(* State machine: the persisted store and the clock.  One action per       *)
(* public operation, run to completion from the current store at the       *)
(* current clock value, with every input and every failure input.          *)

\* the calls on the keys of the profile registry
ProfileCalls == {"get", "set"} \X {"babyProfile", "babyProfiles", "activeBabyId"}

\* the failure inputs that can make a difference to an operation touching keys K
FailOn(K) == {{}} \cup {{x} : x \in ProfileCalls \cup K}

EntryCalls == {"get", "set"} \X {"entries"}
WeightCalls == {"get", "set"} \X {"weights"}
SleepCalls == {"get", "set", "remove"} \X {"activeSleep"}
BreastCalls == {"get", "set", "remove"} \X {"activeBreast"}

Profiles ==
  { [id |-> "p1", name |-> "Emma"], [id |-> "p1", name |-> "Noah"],
    [id |-> "p2", name |-> "Noah"] }

NewProfiles == {[id |-> "p1", name |-> "Emma"], [id |-> "p2", name |-> "Noah"]}

\* a store written by the single-profile version of the app
LegacyEntry == Entry(Id("", 0), "diaper", 0, Undefined)
LegacyStore ==
  [EmptyStore EXCEPT !.babyProfile = <<[id |-> "p1", name |-> "Emma"]>>,
                     !.entries = << <<LegacyEntry>> >>]

Rows(opt) == IF opt = <<>> THEN <<>> ELSE opt[1]

\* the stored active profile id, "" when none is stored
ActiveId(st) == IF st.activeBabyId = <<>> THEN "" ELSE st.activeBabyId[1]

\* the entries the tracking screen's save handlers and other callers pass
NewEntries(t) ==
  { Entry(Id("feeding_", t), "feeding", t, b) : b \in {Undefined} \cup ProfileIds }

NewWeights(t) ==
  { [id |-> Id("", t), babyId |-> b, timestamp |-> t] :
      b \in {Undefined} \cup ProfileIds }

\* the ids and the partial entries passed to updateEntry
UpdateIds == {Id("feeding_", 0), Id("", 0), Id("diaper_", 0)}
Updates == {[amount |-> 4], [babyId |-> "p2", feedingType |-> "formula"]}

Ran(r) == store' = r.c.st /\ UNCHANGED <<now, calls, migrated, dataListeners, loading>>

\* calls: the saveEntry calls in progress, used by the overlapping-saves
\* specification only
Callers == {1, 2}
IdleCall ==
  [pc |-> "idle", order |-> "", entry |-> <<>>, read |-> <<>>, ret |-> <<>>]

Init ==
  /\ store \in {EmptyStore, LegacyStore}
  /\ now = 0
  /\ calls = [i \in Callers |-> IdleCall]
  /\ migrated = "no"
  /\ dataListeners = <<>>
  /\ loading = [s \in LoadSteps |-> 0]

InitFresh ==
  /\ store = EmptyStore
  /\ now = 0
  /\ calls = [i \in Callers |-> IdleCall]
  /\ migrated = "no"
  /\ dataListeners = <<>>
  /\ loading = [s \in LoadSteps |-> 0]

Tick ==
  /\ now < MaxTicks * TickMs
  /\ now' = now + TickMs
  /\ UNCHANGED <<store, calls, migrated, dataListeners, loading>>

SaveBabyProfile ==
  \E F \in FailOn({}), p \in Profiles : Ran(saveBabyProfile(Ctx(store), F, p))

\* onboarding's handleComplete: a new profile under a new id
AddBabyProfile ==
  \E p \in NewProfiles :
    /\ FindIndexId(Rows(store.babyProfiles), p.id) = 0
    /\ Ran(saveBabyProfile(Ctx(store), {}, p))

\* the profile screen's handleSwitchProfile: one of the listed profiles
SwitchProfile ==
  \E i \in 1..Len(Rows(store.babyProfiles)) :
    Ran(setActiveBabyId(Ctx(store), {}, Rows(store.babyProfiles)[i].id))

SetActiveBabyId ==
  \E F \in FailOn({}), id \in ProfileIds : Ran(setActiveBabyId(Ctx(store), F, id))

DeleteBabyProfile ==
  \E F \in FailOn(EntryCalls \cup WeightCalls), id \in ProfileIds :
    Ran(deleteBabyProfile(Ctx(store), F, id))

SaveEntry ==
  /\ Len(Rows(store.entries)) < MaxEntries
  /\ \E F \in FailOn(EntryCalls), e \in NewEntries(now) :
       Ran(saveEntry(Ctx(store), F, e))

GetEntries ==
  \E F \in FailOn(EntryCalls) : Ran(getEntries(Ctx(store), F))

SaveWeightEntry ==
  /\ Len(Rows(store.weights)) < MaxWeights
  /\ \E F \in FailOn(WeightCalls), w \in NewWeights(now) :
       Ran(saveWeightEntry(Ctx(store), F, w))

StartSleepTimer ==
  \E F \in FailOn(SleepCalls) : Ran(startSleepTimer(Ctx(store), F, now))

StopSleepTimer ==
  /\ Len(Rows(store.entries)) < MaxLogged
  /\ \E F \in FailOn(SleepCalls \cup EntryCalls) :
       Ran(stopSleepTimer(Ctx(store), F, now))

GetActiveSleep ==
  \E F \in FailOn(SleepCalls) : Ran(getActiveSleep(Ctx(store), F))

StartBreastTimer ==
  \E F \in FailOn(BreastCalls), side \in Sides :
    Ran(startBreastTimer(Ctx(store), F, now, side))

StopBreastTimer ==
  /\ Len(Rows(store.entries)) < MaxLogged
  /\ \E F \in FailOn(BreastCalls \cup EntryCalls) :
       Ran(stopBreastTimer(Ctx(store), F, now))

GetActiveBreast ==
  \E F \in FailOn(BreastCalls) : Ran(getActiveBreast(Ctx(store), F))

\* Entry store, weights and profile registry
Next ==
  \/ SaveBabyProfile
  \/ SetActiveBabyId
  \/ DeleteBabyProfile
  \/ SaveEntry
  \/ GetEntries
  \/ SaveWeightEntry

Spec == Init /\ [][Next]_vars

\* Timers, with the profile operations that change the active profile
NextTimer ==
  \/ Tick
  \/ AddBabyProfile
  \/ SwitchProfile
  \/ StartSleepTimer
  \/ StopSleepTimer
  \/ GetActiveSleep
  \/ StartBreastTimer
  \/ StopBreastTimer
  \/ GetActiveBreast

SpecTimer == InitFresh /\ [][NextTimer]_vars

-----------------------------------------------------------------------------
(* The change bus and the screens that reload on it.  The tracking screen   *)
(* and the history screen each subscribe a listener that starts the         *)
(* screen's loadData and returns.  A loadData of the tracking screen runs   *)
(* in two steps, the migration it awaits first and the reads after it; one  *)
(* of the history screen runs in one step.  loading counts the loadData     *)
(* calls at each step, up to MaxLoads: those of the tracking screen that    *)
(* have yet to migrate ("tracking") and yet to read ("reading"), and those  *)
(* of the history screen yet to run ("history").                            *)

\* the tracking screen's loadData at time t, after its migration: what it
\* sets of the screen
loadData(c, F, t) ==
  Then(loadPreferences(c, F), LAMBDA preferences :
  Then(getBabyProfile(preferences.c, F), LAMBDA profile :
  Then(getDailySummary(profile.c, F, t), LAMBDA summary :
  Then(getEntriesByDate(summary.c, F, Day(t) * 86400000), LAMBDA entries :
  Then(getActiveSleep(entries.c, F), LAMBDA sleep :
  Then(getActiveBreast(sleep.c, F), LAMBDA breast :
    R(breast.c,
      [ handPreference |-> preferences.ret.handPreference,
        babyProfile |-> profile.ret, dailySummary |-> summary.ret,
        entries |-> entries.ret, activeSleep |-> sleep.ret,
        activeBreast |-> breast.ret ],
      FALSE)))))))

\* the history screen's loadData at time t
loadHistory(c, F, t) ==
  Then(loadPreferences(c, F), LAMBDA prefs :
  Then(getDailySummary(prefs.c, F, t), LAMBDA summary :
  Then(getEntries(summary.c, F), LAMBDA allEntries :
    R(allEntries.c,
      [ volumeUnit |-> prefs.ret.units.volume, dailySummary |-> summary.ret,
        entries |-> allEntries.ret ],
      FALSE))))

\* the loadData calls of screen s that the events of a call started
Started(c, s) ==
  Cardinality({i \in 1..Len(c.heard) :
                 \E j \in 1..Len(c.heard[i]) : c.heard[i][j] = s})

NoLoads == [s \in LoadSteps |-> 0]

\* a call made with the listeners subscribed has run; from and to are the
\* loadData calls it took from a step and brought to a step
RanOnBus(r, from, to) ==
  /\ store' = r.c.st
  /\ loading' = [s \in LoadSteps |->
                   Min({MaxLoads,
                        loading[s] - from[s] + to[s]
                          + (IF s \in Screens THEN Started(r.c, s) ELSE 0)})]
  /\ UNCHANGED <<now, calls, migrated, dataListeners>>

\* a screen mounts: its effects subscribe the listener and start loadData
Mount ==
  \E s \in Screens :
    /\ \A i \in 1..Len(dataListeners) : dataListeners[i] # s
    /\ dataListeners' = onDataChanged(dataListeners, s)
    /\ loading' = [loading EXCEPT ![s] = Min({MaxLoads, @ + 1})]
    /\ UNCHANGED <<store, now, calls, migrated>>

\* another caller subscribes a listener
Subscribe ==
  \E fn \in Listeners \ Screens :
    /\ \A i \in 1..Len(dataListeners) : dataListeners[i] # fn
    /\ dataListeners' = onDataChanged(dataListeners, fn)
    /\ UNCHANGED <<store, now, calls, migrated, loading>>

\* the unsubscribe function of a subscribed listener is called
Unsubscribe ==
  \E i \in 1..Len(dataListeners) :
    /\ dataListeners' = Unsubscribed(dataListeners, dataListeners[i])
    /\ UNCHANGED <<store, now, calls, migrated, loading>>

\* a started loadData of the tracking screen runs its migration
LoadMigrate ==
  /\ loading["tracking"] > 0
  /\ RanOnBus(migrateOldEntriesToFirstProfile(CtxBus(store, dataListeners), {}),
              [NoLoads EXCEPT !["tracking"] = 1], [NoLoads EXCEPT !["reading"] = 1])

\* a loadData of the tracking screen that has migrated runs its reads
LoadData ==
  /\ loading["reading"] > 0
  /\ RanOnBus(loadData(CtxBus(store, dataListeners), {}, now),
              [NoLoads EXCEPT !["reading"] = 1], NoLoads)

\* a started loadData of the history screen runs
LoadHistory ==
  /\ loading["history"] > 0
  /\ RanOnBus(loadHistory(CtxBus(store, dataListeners), {}, now),
              [NoLoads EXCEPT !["history"] = 1], NoLoads)

\* user actions: onboarding adds a profile, the tracking screen saves an
\* entry
UserAddsProfile ==
  \E p \in NewProfiles :
    /\ FindIndexId(Rows(store.babyProfiles), p.id) = 0
    /\ RanOnBus(saveBabyProfile(CtxBus(store, dataListeners), {}, p), NoLoads, NoLoads)

UserSavesEntry ==
  /\ Len(Rows(store.entries)) < MaxEntries
  /\ \E e \in NewEntries(now) :
       RanOnBus(saveEntry(CtxBus(store, dataListeners), {}, e), NoLoads, NoLoads)

NextBus ==
  \/ Mount
  \/ Subscribe
  \/ Unsubscribe
  \/ LoadMigrate
  \/ LoadData
  \/ LoadHistory
  \/ UserAddsProfile
  \/ UserSavesEntry

\* a started loadData is an async function on the event loop: each of its
\* steps runs
SpecBus ==
  /\ InitFresh
  /\ [][NextBus]_vars
  /\ WF_vars(LoadMigrate)
  /\ WF_vars(LoadData)
  /\ WF_vars(LoadHistory)

-----------------------------------------------------------------------------
(* Overlapping saveEntry calls.  Two callers each run saveEntry once; a    *)
(* call is suspended at its awaits, so the other call's steps may come     *)
(* between its stamping, its read of the entry list and its write.  The    *)
(* lookup of the active profile is taken as one step.  order records how a *)
(* call began: "first" (the other had not begun), "after" (the other had   *)
(* returned) or "overlap" (the other was in progress).                     *)

Other(i) == CHOOSE j \in Callers : j # i

\* caller 1 is saveBottleEntry, caller 2 saveDiaperEntry, at the same clock
CallerEntry(i, t) ==
  IF i = 1 THEN Entry(Id("feeding_", t), "feeding", t, Undefined)
  ELSE Entry(Id("diaper_", t), "diaper", t, Undefined)

SaveEntryBegin(i) ==
  /\ calls[i].pc = "idle"
  /\ \E F \in FailOn({}) :
       LET e == CallerEntry(i, now)
           a == getActiveBabyId(Ctx(store), F)
           stamped == IF a.ret # "" THEN [e EXCEPT !.babyId = a.ret] ELSE e
           o == calls[Other(i)].pc
       IN /\ store' = a.c.st
          /\ calls' = [calls EXCEPT ![i].pc = "stamped", ![i].entry = <<stamped>>,
                         ![i].order = IF o = "idle" THEN "first"
                                      ELSE IF o = "done" THEN "after"
                                      ELSE "overlap"]
  /\ UNCHANGED <<now, migrated, dataListeners, loading>>

SaveEntryRead(i) ==
  /\ calls[i].pc = "stamped"
  /\ \/ calls' = [calls EXCEPT ![i].pc = "read", ![i].read = Rows(store.entries)]
     \/ calls' = [calls EXCEPT ![i].pc = "done", ![i].ret = <<FALSE>>]
  /\ UNCHANGED <<store, now, migrated, dataListeners, loading>>

SaveEntryWrite(i) ==
  /\ calls[i].pc = "read"
  /\ \/ /\ store' = [store EXCEPT
                       !.entries = <<Pushed(calls[i].read, calls[i].entry[1])>>]
        /\ calls' = [calls EXCEPT ![i].pc = "done", ![i].ret = <<TRUE>>]
     \/ /\ calls' = [calls EXCEPT ![i].pc = "done", ![i].ret = <<FALSE>>]
        /\ UNCHANGED store
  /\ UNCHANGED <<now, migrated, dataListeners, loading>>

NextConc ==
  \/ AddBabyProfile
  \/ \E i \in Callers : SaveEntryBegin(i)
  \/ \E i \in Callers : SaveEntryRead(i)
  \/ \E i \in Callers : SaveEntryWrite(i)

SpecConc == Init /\ [][NextConc]_vars

-----------------------------------------------------------------------------
(* The screens' use of the data layer with a store whose calls succeed:    *)
(* the tracking screen's loadData runs the migration first, then entries,  *)
(* weights, profiles and timers are written through the operations below.  *)
(* migrated records that a migration has completed, no store call having   *)
(* thrown, with at least one profile stored ("done"), and whether one did  *)
(* so with an active profile id stored ("doneActive").                     *)

Migrate ==
  \E F \in FailOn(EntryCalls \cup WeightCalls) :
    LET m == migrateOldEntriesToFirstProfile(Ctx(store), F)
    IN /\ store' = m.c.st
       /\ migrated' =
            IF m.c.err = {} /\ Len(Rows(m.c.st.babyProfiles)) >= 1
              THEN IF ActiveId(m.c.st) # "" THEN "doneActive"
                   ELSE IF migrated = "no" THEN "done" ELSE migrated
              ELSE migrated
       /\ UNCHANGED <<now, calls, dataListeners, loading>>

LogEntry ==
  /\ Len(Rows(store.entries)) < MaxEntries
  /\ \E e \in NewEntries(now) : Ran(saveEntry(Ctx(store), {}, e))

LogWeight ==
  /\ Len(Rows(store.weights)) < MaxWeights
  /\ \E w \in NewWeights(now) : Ran(saveWeightEntry(Ctx(store), {}, w))

RemoveProfile == \E id \in ProfileIds : Ran(deleteBabyProfile(Ctx(store), {}, id))

BeginSleep == Ran(startSleepTimer(Ctx(store), {}, now))

EndSleep ==
  /\ Len(Rows(store.entries)) < MaxLogged
  /\ Ran(stopSleepTimer(Ctx(store), {}, now))

BeginBreast == Ran(startBreastTimer(Ctx(store), {}, now, "left"))

EndBreast ==
  /\ Len(Rows(store.entries)) < MaxLogged
  /\ Ran(stopBreastTimer(Ctx(store), {}, now))

NextMigrate ==
  \/ Migrate
  \/ LogEntry
  \/ LogWeight
  \/ AddBabyProfile
  \/ SwitchProfile
  \/ RemoveProfile
  \/ BeginSleep
  \/ EndSleep
  \/ BeginBreast
  \/ EndBreast

SpecMigrate == Init /\ [][NextMigrate]_vars

-----------------------------------------------------------------------------
(* The timers over a longer stretch of the clock: sessions of up to         *)
(* MaxElapse steps of TickMs, started and stopped with no store call        *)
(* failing.                                                                *)

Elapse ==
  /\ now < MaxElapse * TickMs
  /\ now' = now + TickMs
  /\ UNCHANGED <<store, calls, migrated, dataListeners, loading>>

NextClock ==
  \/ Elapse
  \/ AddBabyProfile
  \/ SwitchProfile
  \/ BeginSleep
  \/ EndSleep
  \/ BeginBreast
  \/ EndBreast

SpecClock == InitFresh /\ [][NextClock]_vars

-----------------------------------------------------------------------------
(* The entry list over several days: entries of the three types are saved   *)
(* at the current clock value, which advances by half days.                 *)

\* the entries the save handlers and the timers persist
TrackedEntries(t) ==
  { [Entry(Id(x[1], t), x[2], t, b) EXCEPT !.duration = x[3]] :
      x \in { <<"feeding_", "feeding", NoNum>>, <<"diaper_", "diaper", NoNum>>,
              <<"", "sleep", 0>>, <<"", "sleep", 30>> },
      b \in {Undefined} \cup ProfileIds }

\* the dates a summary is asked for
QueryDates == { k * HalfDayMs : k \in 0..(MaxHalfDays + 1) }

HalfDay ==
  /\ now < MaxHalfDays * HalfDayMs
  /\ now' = now + HalfDayMs
  /\ UNCHANGED <<store, calls, migrated, dataListeners, loading>>

Track ==
  /\ Len(Rows(store.entries)) < MaxEntries
  /\ \E e \in TrackedEntries(now) : Ran(saveEntry(Ctx(store), {}, e))

NextSummary ==
  \/ HalfDay
  \/ SaveBabyProfile
  \/ SwitchProfile
  \/ Track

SpecSummary == InitFresh /\ [][NextSummary]_vars

-----------------------------------------------------------------------------
(* The profile screen's flows beside the tracking screen's: profiles are    *)
(* added, edited, switched and deleted through the screen's handlers, with  *)
(* no store call failing.                                                   *)

\* the tracking screen's saveBottleEntry: an entry without babyId
SaveBottleEntry ==
  /\ Len(Rows(store.entries)) < MaxEntries
  /\ Ran(saveEntry(Ctx(store), {}, Entry(Id("feeding_", now), "feeding", now, Undefined)))

\* the settings screen's weight save: babyProfile?.id || 'default', the
\* profile being the one the screen loaded with getBabyProfile()
SaveWeight ==
  /\ Len(Rows(store.weights)) < MaxWeights
  /\ Ran(Then(getBabyProfile(Ctx(store), {}), LAMBDA babyProfile :
           saveWeightEntry(babyProfile.c, {},
             [ id |-> Id("", now), timestamp |-> now,
               babyId |-> IF babyProfile.ret = <<>> THEN "default"
                          ELSE babyProfile.ret[1].id ])))

AddProfileFlow ==
  \E p \in NewProfiles :
    /\ FindIndexId(Rows(store.babyProfiles), p.id) = 0
    /\ Ran(handleSaveNewProfile(Ctx(store), {}, p))

\* handleUpdateProfile: a listed profile under a new name
EditProfileFlow ==
  \E p \in Profiles :
    /\ FindIndexId(Rows(store.babyProfiles), p.id) # 0
    /\ Ran(saveBabyProfile(Ctx(store), {}, p))

DeleteProfileFlow ==
  \E id \in ProfileIds :
    /\ FindIndexId(Rows(store.babyProfiles), id) # 0
    /\ Len(Rows(store.babyProfiles)) > 1
    /\ Ran(handleDeleteProfile(Ctx(store), {}, id))

NextProfiles ==
  \/ AddProfileFlow
  \/ EditProfileFlow
  \/ SwitchProfile
  \/ DeleteProfileFlow
  \/ SaveBottleEntry
  \/ SaveWeight
  \/ BeginSleep
  \/ EndSleep
  \/ BeginBreast
  \/ EndBreast

SpecProfiles == Init /\ [][NextProfiles]_vars

-----------------------------------------------------------------------------
(* The preferences beside the profile registry: the settings and tracking   *)
(* screens update them one field, or one unit, at a time.                   *)

PrefCalls == {"get", "set"} \X {"preferences"}

\* preferences written before the units had a weight and the dark mode
\* existed
EarlierPreferences ==
  [ handPreference |-> "left", showActionLabels |-> TRUE,
    units |-> [volume |-> "metric"], hapticFeedback |-> TRUE ]

PreferenceUpdates ==
  { [handPreference |-> h] : h \in {"left", "right"} }
    \cup { [showActionLabels |-> b] : b \in BOOLEAN }
    \cup { [darkMode |-> b] : b \in BOOLEAN }
    \cup { [units |-> [volume |-> u]] : u \in {"imperial", "metric"} }
    \cup { [units |-> [weight |-> u]] : u \in {"imperial", "metric"} }
    \cup { [units |-> [volume |-> u, weight |-> u]] : u \in {"imperial", "metric"} }
    \cup { [hapticFeedback |-> FALSE, units |-> [weight |-> "metric"]] }

InitPrefs ==
  /\ store \in {EmptyStore,
                [EmptyStore EXCEPT !.preferences = <<EarlierPreferences>>]}
  /\ now = 0
  /\ calls = [i \in Callers |-> IdleCall]
  /\ migrated = "no"
  /\ dataListeners = <<>>
  /\ loading = [s \in LoadSteps |-> 0]

UpdatePreferences ==
  \E F \in {{}} \cup {{x} : x \in PrefCalls}, u \in PreferenceUpdates :
    Ran(updatePreferences(Ctx(store), F, u))

NextPrefs ==
  \/ UpdatePreferences
  \/ AddBabyProfile
  \/ SwitchProfile

SpecPrefs == InitPrefs /\ [][NextPrefs]_vars

-----------------------------------------------------------------------------
(* Properties.  A property of an operation is stated over every reachable  *)
(* store: the operation is applied to the store with the inputs named, and *)
(* its result and the store it leaves are examined.  Unless a property is  *)
(* about failures, the call is one in which no store call throws.          *)


Range(seq) == {seq[i] : i \in 1..Len(seq)}

\* the rows owned by profile P or by no profile, in stored order
OwnedOrLegacy(rows, P) ==
  SelectSeq(rows, LAMBDA e : e.babyId = P \/ e.babyId \in {Undefined, ""})

\* the rows not owned by profile P, in stored order
Others(rows, P) == SelectSeq(rows, LAMBDA e : e.babyId # P)

\* C1: while the stored active profile id is P (non-empty), getEntries()
\* returns exactly the stored entries whose babyId is P or absent, in stored
\* order, and no entry whose babyId is another profile's.
C1_ProfileScoping ==
  \A P \in ProfileIds :
    store.activeBabyId = <<P>> =>
      LET r == getEntries(Ctx(store), {})
      IN /\ ~r.thrown
         /\ r.ret = OwnedOrLegacy(Rows(store.entries), P)
         /\ \A e \in Range(r.ret) : e.babyId \notin ProfileIds \ {P}

\* a store with entries of the active profile and of another one
C1_Witness ==
  /\ store.activeBabyId = <<"p1">>
  /\ \E e \in Range(Rows(store.entries)) : e.babyId = "p2"
  /\ \E e \in Range(Rows(store.entries)) : e.babyId = "p1"
  /\ Len(getEntries(Ctx(store), {}).ret) = 1

\* C2 as stated: whatever the babyId of e, when saveEntry(e) returns true
\* the getEntries() that follows it returns a list containing e.
C2_ReadAfterWriteAnyBabyId ==
  \A F \in FailOn(EntryCalls), e \in NewEntries(now) :
    LET s == saveEntry(Ctx(store), F, e)
        g == getEntries(Ctx(s.c.st), {})
    IN s.ret = TRUE => s.entry \in Range(g.ret)

\* C2 amended: when saveEntry(e) returns true, the getEntries() that
\* follows it (no store read failing) returns a list containing e exactly
\* when e's babyId, as saveEntry left it, is absent or the active profile's,
\* or no profile is active; e is persisted in every case.
C2_ReadAfterWrite ==
  \A F \in FailOn(EntryCalls), e \in NewEntries(now) :
    LET s == saveEntry(Ctx(store), F, e)
        g == getEntries(Ctx(s.c.st), {})
        A == ActiveId(g.c.st)
    IN s.ret = TRUE =>
         /\ s.entry \in Range(Rows(s.c.st.entries))
         /\ s.entry \in Range(g.ret)
              <=> (Falsy(s.entry.babyId) \/ s.entry.babyId = A \/ A = "")

\* an entry saved without babyId under active profile p1 is the last row
\* and is returned
C2_Witness ==
  /\ store.activeBabyId = <<"p1">>
  /\ Len(Rows(store.entries)) = 2
  /\ Rows(store.entries)[2].babyId = "p1"
  /\ Rows(store.entries)[2] \in Range(getEntries(Ctx(store), {}).ret)
  /\ Rows(store.entries)[1].babyId = "p2"
  /\ Rows(store.entries)[1] \notin Range(getEntries(Ctx(store), {}).ret)

\* C8 as stated: when the write of the entry list throws, saveEntry(e)
\* returns false, publishes no change event and leaves every persisted key
\* as it was.
C8_WriteFailureLeavesAll ==
  \A e \in NewEntries(now) :
    LET s == saveEntry(Ctx(store), {<<"set", "entries">>}, e)
    IN /\ s.ret = FALSE
       /\ s.c.ev = 0
       /\ s.c.st = store

\* C8 amended: when the write of the entry list throws, saveEntry(e)
\* returns false without throwing and leaves the entry list, the weight list
\* and both timer records as they were; if e carries a babyId or a non-empty
\* active id is stored, no key changes and no change event is published
\* (otherwise the lookup of the active profile may adopt the first profile:
\* it may write the profile list, the active id and the legacy profile and
\* publish).
C8_WriteFailure ==
  \A e \in NewEntries(now) :
    LET s == saveEntry(Ctx(store), {<<"set", "entries">>}, e)
    IN /\ s.ret = FALSE
       /\ ~s.thrown
       /\ <<"set", "entries">> \in s.c.err
       /\ \A k \in {"entries", "weights", "activeSleep", "activeBreast"} :
            s.c.st[k] = store[k]
       /\ (~Falsy(e.babyId) \/ ActiveId(store) # "") =>
            (s.c.st = store /\ s.c.ev = 0)

\* a store with entries and an active profile, where the failed write is
\* that of a second entry
C8_Witness ==
  /\ ActiveId(store) = "p1"
  /\ Len(Rows(store.entries)) = 1
  /\ \E e \in NewEntries(now) :
       LET s == saveEntry(Ctx(store), {<<"set", "entries">>}, e)
       IN s.ret = FALSE /\ <<"set", "entries">> \in s.c.err /\ s.c.st = store

\* the profile list as getAllBabyProfiles sees it: the stored list, or the
\* legacy profile alone when no list is stored
ListedProfiles(st) ==
  IF st.babyProfiles # <<>> THEN st.babyProfiles[1] ELSE st.babyProfile

\* C10: after deleteBabyProfile(id) with no store call failing, the profile
\* list holds no profile with that id and every other profile in its place;
\* the entry list and the weight list hold no row whose babyId is id and
\* every other row (another babyId, or none) unchanged and in order.
C10_CascadeDelete ==
  \A id \in ProfileIds :
    LET r == deleteBabyProfile(Ctx(store), {}, id)
        st == r.c.st
    IN /\ ~r.thrown
       /\ st.babyProfiles # <<>>
       /\ \A p \in Range(st.babyProfiles[1]) : p.id # id
       /\ st.babyProfiles[1] = SelectSeq(ListedProfiles(store), LAMBDA p : p.id # id)
       /\ \A e \in Range(Rows(st.entries)) \cup Range(Rows(st.weights)) : e.babyId # id
       /\ Rows(st.entries) = Others(Rows(store.entries), id)
       /\ Rows(st.weights) = Others(Rows(store.weights), id)

\* a store with two profiles, entries of both and a weight of the deleted one
C10_Witness ==
  /\ {p.id : p \in Range(Rows(store.babyProfiles))} = {"p1", "p2"}
  /\ {e.babyId : e \in Range(Rows(store.entries))} = {"p1", "p2"}
  /\ \E w \in Range(Rows(store.weights)) : w.babyId = "p1"
  /\ LET st == deleteBabyProfile(Ctx(store), {}, "p1").c.st
     IN /\ Len(st.babyProfiles[1]) = 1
        /\ Len(Rows(st.entries)) = 1
        /\ Rows(st.weights) = <<>>

\* what stop must do from store st at time t, for one timer kind: key is
\* the active-record key, r the result of stop, g0 that of getActive before
\* it, g1 and r1 those of getActive and of stop right after it
StopTransition(st, t, key, g0, r, g1, r1) ==
  g0.ret # <<>> =>
    /\ ~r.thrown
    /\ Len(r.ret) = 1
    /\ Len(Rows(r.c.st.entries)) = Len(Rows(st.entries)) + 1
    /\ Rows(r.c.st.entries) = Append(Rows(st.entries), r.ret[1])
    /\ r.ret[1].isActive = FALSE
    /\ r.ret[1].endTime = t
    /\ r.c.st[key] = <<>>
    /\ g1.ret = <<>>
    /\ r1.ret = <<>>
    /\ r1.c.st.entries = r.c.st.entries

\* C3: for each timer kind, when getActive returns a record and no store
\* call fails, stop appends exactly one completed entry (isActive false,
\* endTime the stop time), leaves the earlier entries as they were and
\* removes the active-record key; getActive right after it returns null and
\* stop right after it returns null.
C3_StopTransition ==
  /\ LET r == stopSleepTimer(Ctx(store), {}, now)
     IN StopTransition(store, now, "activeSleep",
                       getActiveSleep(Ctx(store), {}), r,
                       getActiveSleep(Ctx(r.c.st), {}),
                       stopSleepTimer(Ctx(r.c.st), {}, now))
  /\ LET r == stopBreastTimer(Ctx(store), {}, now)
     IN StopTransition(store, now, "activeBreast",
                       getActiveBreast(Ctx(store), {}), r,
                       getActiveBreast(Ctx(r.c.st), {}),
                       stopBreastTimer(Ctx(r.c.st), {}, now))

\* both timers running for the active profile, started before now, with an
\* earlier entry in the list
C3_Witness ==
  /\ Len(Rows(store.entries)) = 1
  /\ getActiveSleep(Ctx(store), {}).ret # <<>>
  /\ getActiveBreast(Ctx(store), {}).ret # <<>>
  /\ store.activeSleep[1].startTime < now
  /\ Len(Rows(stopSleepTimer(Ctx(store), {}, now).c.st.entries)) = 2

\* C4: at most one active sleep record and one active breast record are
\* stored; a start issued while a record is stored (no stop in between)
\* leaves exactly the record it created, and the earlier record is gone.
C4_TimerMutualExclusion ==
  /\ Len(store.activeSleep) <= 1
  /\ Len(store.activeBreast) <= 1
  /\ store.activeSleep # <<>> =>
       LET r == startSleepTimer(Ctx(store), {}, now)
       IN /\ ~r.thrown
          /\ Len(r.ret) = 1
          /\ r.c.st.activeSleep = r.ret
          /\ r.ret[1].startTime = now
          /\ store.activeSleep[1].startTime < now
               => store.activeSleep[1] \notin Range(r.c.st.activeSleep)
  /\ store.activeBreast # <<>> =>
       \A side \in Sides :
         LET r == startBreastTimer(Ctx(store), {}, now, side)
         IN /\ ~r.thrown
            /\ Len(r.ret) = 1
            /\ r.c.st.activeBreast = r.ret
            /\ r.ret[1].startTime = now /\ r.ret[1].side = side
            /\ store.activeBreast[1].startTime < now
                 => store.activeBreast[1] \notin Range(r.c.st.activeBreast)

\* both timers started at an earlier clock value and not stopped
C4_Witness ==
  /\ store.activeSleep # <<>> /\ store.activeSleep[1].startTime < now
  /\ store.activeBreast # <<>> /\ store.activeBreast[1].startTime < now

\* C5: when no active sleep record is stored, stopSleepTimer() returns null,
\* does not throw and leaves the entry list as it was, whatever store call
\* fails; likewise stopBreastTimer() when no active breast record is stored.
C5_StopWithoutStart ==
  \A F \in FailSets :
    /\ store.activeSleep = <<>> =>
         LET r == stopSleepTimer(Ctx(store), F, now)
         IN r.ret = <<>> /\ ~r.thrown /\ r.c.st.entries = store.entries
    /\ store.activeBreast = <<>> =>
         LET r == stopBreastTimer(Ctx(store), F, now)
         IN r.ret = <<>> /\ ~r.thrown /\ r.c.st.entries = store.entries

\* no timer is running, a profile is active and an entry is in the list
C5_Witness ==
  /\ store.activeSleep = <<>>
  /\ store.activeBreast = <<>>
  /\ ActiveId(store) = "p1"
  /\ Len(Rows(store.entries)) = 1
  /\ stopSleepTimer(Ctx(store), {}, now).ret = <<>>

\* C6 as stated: getActiveSleep() and getActiveBreast() return a stored
\* record only if its babyId equals the current active profile id.
C6_GetActiveOnlyOwn ==
  /\ LET g == getActiveSleep(Ctx(store), {})
     IN g.ret # <<>> => g.ret[1].babyId = ActiveId(g.c.st)
  /\ LET g == getActiveBreast(Ctx(store), {})
     IN g.ret # <<>> => g.ret[1].babyId = ActiveId(g.c.st)

\* the record stored under key is returned exactly when its babyId is empty
\* or the active profile's
Gated(st, key, g) ==
  /\ ~g.thrown
  /\ g.ret # <<>> => g.ret = st[key]
  /\ st[key] # <<>> =>
       (g.ret # <<>> <=> (Falsy(st[key][1].babyId)
                          \/ st[key][1].babyId = ActiveId(g.c.st)))

\* C6 amended: getActiveSleep() and getActiveBreast() (no store call
\* failing) return the stored record exactly when its babyId is empty or
\* equals the current active profile id; a record with the babyId of another
\* profile is reported as absent, and a record started when no profile
\* existed (empty babyId) is returned under every active profile.
C6_GetActiveGated ==
  /\ Gated(store, "activeSleep", getActiveSleep(Ctx(store), {}))
  /\ Gated(store, "activeBreast", getActiveBreast(Ctx(store), {}))

\* a sleep record of p1 hidden while p2 is active, and a breast record
\* started before any profile existed returned while p2 is active
C6_Witness ==
  /\ ActiveId(store) = "p2"
  /\ store.activeSleep # <<>> /\ store.activeSleep[1].babyId = "p1"
  /\ getActiveSleep(Ctx(store), {}).ret = <<>>
  /\ store.activeBreast # <<>> /\ store.activeBreast[1].babyId = ""
  /\ getActiveBreast(Ctx(store), {}).ret = store.activeBreast

\* C7 as stated: whatever store call fails, no public operation of the data
\* layer throws to its caller.
C7_NoOperationThrows ==
  \A F \in FailSets :
    /\ ~getEntries(Ctx(store), F).thrown
    /\ \A e \in NewEntries(now) : ~saveEntry(Ctx(store), F, e).thrown
    /\ ~getActiveSleep(Ctx(store), F).thrown
    /\ ~getActiveBreast(Ctx(store), F).thrown
    /\ ~stopSleepTimer(Ctx(store), F, now).thrown
    /\ ~stopBreastTimer(Ctx(store), F, now).thrown
    /\ ~clearActiveBreast(Ctx(store), F).thrown
    /\ ~getAllBabyProfiles(Ctx(store), F).thrown
    /\ ~getActiveBabyId(Ctx(store), F).thrown
    /\ ~getWeightEntries(Ctx(store), F).thrown
    /\ \A id \in ProfileIds :
         /\ ~setActiveBabyId(Ctx(store), F, id).thrown
         /\ ~deleteBabyProfile(Ctx(store), F, id).thrown
    /\ ~startSleepTimer(Ctx(store), F, now).thrown
    /\ ~clearActiveSleep(Ctx(store), F).thrown
    /\ \A side \in Sides : ~startBreastTimer(Ctx(store), F, now, side).thrown
    /\ \A p \in Profiles : ~saveBabyProfile(Ctx(store), F, p).thrown
    /\ \A w \in NewWeights(now) : ~saveWeightEntry(Ctx(store), F, w).thrown

BothReturnedTrue ==
  \A i \in Callers : calls[i].pc = "done" /\ calls[i].ret = <<TRUE>>

\* the callers whose entry is in the persisted list
Kept == {i \in Callers : calls[i].entry[1] \in Range(Rows(store.entries))}

\* C9: when two saveEntry calls have both returned true, the persisted list
\* holds both entries if the second call began after the first returned,
\* and at least one of them in any case (overlapping calls can lose one:
\* the witness).
C9_LostUpdate ==
  BothReturnedTrue =>
    /\ Kept # {}
    /\ (\E i \in Callers : calls[i].order = "after") => Kept = Callers
    /\ Kept # Callers => \A i \in Callers : calls[i].order # "after"

\* both calls returned true and only one of the two entries is persisted
C9_Witness == BothReturnedTrue /\ Cardinality(Kept) = 1

\* the rows of new are those of old, in order, with babyId P on each row
\* that lacked one
StampedExactly(old, new, P) ==
  /\ Len(new) = Len(old)
  /\ \A i \in 1..Len(old) :
       /\ Falsy(old[i].babyId) => new[i] = [old[i] EXCEPT !.babyId = P]
       /\ ~Falsy(old[i].babyId) => new[i] = old[i]

\* C11: with at least one profile, migrateOldEntriesToFirstProfile() stamps
\* the first profile's id on every entry and weight row lacking babyId and
\* changes no row that has one, and a second call right after it leaves the
\* entry list and the weight list as the first call left them.
C11_MigrationIdempotent ==
  LET r == getAllBabyProfiles(Ctx(store), {})
      m1 == migrateOldEntriesToFirstProfile(Ctx(store), {})
      m2 == migrateOldEntriesToFirstProfile(Ctx(m1.c.st), {})
  IN Len(r.ret) >= 1 =>
       /\ ~m1.thrown /\ ~m2.thrown
       /\ (m1.c.st.entries = <<>>) <=> (store.entries = <<>>)
       /\ (m1.c.st.weights = <<>>) <=> (store.weights = <<>>)
       /\ StampedExactly(Rows(store.entries), Rows(m1.c.st.entries), r.ret[1].id)
       /\ StampedExactly(Rows(store.weights), Rows(m1.c.st.weights), r.ret[1].id)
       /\ m2.c.st.entries = m1.c.st.entries
       /\ m2.c.st.weights = m1.c.st.weights

\* the first profile is p1; an entry without babyId, an entry of p2 and a
\* weight without babyId are stored
C11_Witness ==
  /\ Len(Rows(store.babyProfiles)) >= 1
  /\ Rows(store.babyProfiles)[1].id = "p1"
  /\ \E i \in 1..Len(Rows(store.entries)) : Falsy(Rows(store.entries)[i].babyId)
  /\ \E i \in 1..Len(Rows(store.entries)) : Rows(store.entries)[i].babyId = "p2"
  /\ \E i \in 1..Len(Rows(store.weights)) : Falsy(Rows(store.weights)[i].babyId)
  /\ migrateOldEntriesToFirstProfile(Ctx(store), {}).c.st # store

\* every row carries a babyId
AllOwned(rows) == \A i \in 1..Len(rows) : ~Falsy(rows[i].babyId)

NoProfileStored(st) ==
  st.babyProfiles = <<>> /\ st.babyProfile = <<>> /\ st.activeBabyId = <<>>

\* C13: on a store with no profile list, no legacy profile and no active id,
\* after saveBabyProfile(p) getActiveBabyId() returns p.id (writing
\* nothing), the active id key holds p.id and the legacy key holds p, and a
\* later saveBabyProfile of a profile with another id changes neither.
C13_FirstProfileActive ==
  NoProfileStored(store) =>
    \A p \in Profiles :
      LET s1 == saveBabyProfile(Ctx(store), {}, p)
          a == getActiveBabyId(Ctx(s1.c.st), {})
      IN /\ ~s1.thrown
         /\ a.ret = p.id /\ a.c.wr = 0
         /\ s1.c.st.activeBabyId = <<p.id>>
         /\ s1.c.st.babyProfile = <<p>>
         /\ Rows(s1.c.st.babyProfiles) = <<p>>
         /\ \A q \in Profiles :
              q.id # p.id =>
                LET s2 == saveBabyProfile(Ctx(s1.c.st), {}, q)
                IN /\ s2.c.st.activeBabyId = <<p.id>>
                   /\ s2.c.st.babyProfile = <<p>>
                   /\ getActiveBabyId(Ctx(s2.c.st), {}).ret = p.id

\* entries were logged before any profile was saved
C13_Witness ==
  /\ NoProfileStored(store)
  /\ Len(Rows(store.entries)) = 2
  /\ saveBabyProfile(Ctx(store), {}, [id |-> "p2", name |-> "Noah"]).c.st.activeBabyId
       = <<"p2">>

DistinctIds(profiles) ==
  \A i, j \in 1..Len(profiles) : profiles[i].id = profiles[j].id => i = j

\* C14: the ids of the stored profile list are pairwise distinct, and
\* saveBabyProfile(p) leaves a list with exactly one record of id p.id,
\* equal to p, at the position of the earlier record of that id if there was
\* one and at the end otherwise, every other profile unchanged in place.
C14_UpsertById ==
  /\ DistinctIds(Rows(store.babyProfiles))
  /\ \A p \in Profiles :
       LET old == getAllBabyProfiles(Ctx(store), {}).ret
           s == saveBabyProfile(Ctx(store), {}, p)
           new == Rows(s.c.st.babyProfiles)
           at == {i \in 1..Len(new) : new[i].id = p.id}
       IN /\ ~s.thrown
          /\ Cardinality(at) = 1
          /\ \A i \in at : new[i] = p
          /\ \A j \in 1..Len(old) :
               IF old[j].id = p.id THEN at = {j} ELSE new[j] = old[j]
          /\ Len(new) = IF \E j \in 1..Len(old) : old[j].id = p.id
                          THEN Len(old) ELSE Len(old) + 1

\* two profiles are listed and the first is the one a save would update
C14_Witness ==
  /\ Len(Rows(store.babyProfiles)) = 2
  /\ Rows(store.babyProfiles)[1] = [id |-> "p1", name |-> "Emma"]
  /\ Rows(saveBabyProfile(Ctx(store), {}, [id |-> "p1", name |-> "Noah"]).c.st.babyProfiles)[1]
       = [id |-> "p1", name |-> "Noah"]

\* C15: with the profile-list key absent and the legacy key holding p,
\* getAllBabyProfiles() returns [p], persists [p] as the list and p.id as
\* the active id and leaves the other keys alone; a second call returns the
\* same list and writes nothing; with both keys absent it returns [] and
\* writes nothing.
C15_LegacyProfileMigration ==
  LET r1 == getAllBabyProfiles(Ctx(store), {})
      r2 == getAllBabyProfiles(Ctx(r1.c.st), {})
  IN /\ (store.babyProfiles = <<>> /\ store.babyProfile # <<>>) =>
          /\ r1.ret = store.babyProfile
          /\ r1.c.st = [store EXCEPT !.babyProfiles = <<store.babyProfile>>,
                                     !.activeBabyId = <<store.babyProfile[1].id>>]
          /\ r2.ret = r1.ret
          /\ r2.c.wr = 0 /\ r2.c.st = r1.c.st
     /\ (store.babyProfiles = <<>> /\ store.babyProfile = <<>>) =>
          r1.ret = <<>> /\ r1.c.wr = 0 /\ r1.c.st = store

\* a legacy profile without a profile list, the stored active id being
\* another profile's
C15_Witness ==
  /\ store.babyProfiles = <<>>
  /\ store.babyProfile = <<[id |-> "p1", name |-> "Emma"]>>
  /\ store.activeBabyId = <<"p2">>
  /\ ActiveId(getAllBabyProfiles(Ctx(store), {}).c.st) = "p1"

\* C16: updateEntry(id, u) returns true exactly when an entry of that id
\* is in the full persisted list, whatever its profile and the active one;
\* the first such entry then holds u's fields and otherwise its own, every
\* other entry is unchanged; when it returns false (not found, or a store
\* call failed) the persisted entry list is unchanged.
C16_UpdateEntryUnfiltered ==
  \A id \in UpdateIds, u \in Updates :
    LET old == Rows(store.entries)
        hit == {i \in 1..Len(old) : old[i].id = id}
        r == updateEntry(Ctx(store), {}, id, u)
        new == Rows(r.c.st.entries)
    IN /\ r.ret = TRUE <=> hit # {}
       /\ r.ret = TRUE =>
            /\ Len(new) = Len(old)
            /\ \A i \in 1..Len(old) :
                 IF i = Min(hit)
                   THEN \A k \in DOMAIN old[i] :
                          new[i][k] = IF k \in DOMAIN u THEN u[k] ELSE old[i][k]
                   ELSE new[i] = old[i]
       /\ \A F \in FailOn(EntryCalls) :
            LET f == updateEntry(Ctx(store), F, id, u)
            IN f.ret = FALSE => f.c.st.entries = store.entries

\* p1 is active and the list holds two entries of one id, the first of them
\* p2's
C16_Witness ==
  /\ ActiveId(store) = "p1"
  /\ Len(Rows(store.entries)) = 2
  /\ Rows(store.entries)[1].babyId = "p2"
  /\ Rows(store.entries)[1].id = Rows(store.entries)[2].id
  /\ updateEntry(Ctx(store), {}, Rows(store.entries)[1].id, [amount |-> 4]).ret = TRUE

\* C17 as stated: no two entries of the persisted entry list share an id,
\* also when two of the operations that create entries read the same clock
\* value.
C17_EntryIdsUnique ==
  \A i, j \in 1..Len(Rows(store.entries)) :
    Rows(store.entries)[i].id = Rows(store.entries)[j].id => i = j

\* C18: for both timers, when a session started at T0 is stopped at
\* T1 >= T0, the returned entry's duration d is the whole number of minutes
\* in T1 - T0, that is d * 60000 <= T1 - T0 < (d + 1) * 60000 (so 2 for
\* 125000 ms), and its endTime is T1.
C18_DurationFloor ==
  LET Floored(T0, r) ==
        /\ r.ret # <<>>
        /\ r.ret[1].endTime = now
        /\ r.ret[1].duration * 60000 <= now - T0
        /\ now - T0 < (r.ret[1].duration + 1) * 60000
        /\ now - T0 = 125000 => r.ret[1].duration = 2
      gs == getActiveSleep(Ctx(store), {})
      gb == getActiveBreast(Ctx(store), {})
  IN /\ gs.ret # <<>> /\ now >= gs.ret[1].startTime =>
          Floored(gs.ret[1].startTime, stopSleepTimer(Ctx(store), {}, now))
     /\ gb.ret # <<>> /\ now >= gb.ret[1].startTime =>
          Floored(gb.ret[1].startTime, stopBreastTimer(Ctx(store), {}, now))

\* a sleep session is stopped 125000 ms after its start and a breast session
\* 62500 ms after its start
C18_Witness ==
  /\ now = 125000
  /\ getActiveSleep(Ctx(store), {}).ret # <<>>
  /\ getActiveBreast(Ctx(store), {}).ret # <<>>
  /\ store.activeSleep[1].startTime = 0
  /\ store.activeBreast[1].startTime = 62500
  /\ stopSleepTimer(Ctx(store), {}, now).ret[1].duration = 2
  /\ stopBreastTimer(Ctx(store), {}, now).ret[1].duration = 1

\* the entry a stop returned for a session of side s started at T0 under
\* profile P, and the entry list it left
CompletedBreast(old, r, s, T0, P) ==
  /\ r.ret # <<>>
  /\ r.ret[1].type = "feeding"
  /\ r.ret[1].feedingType = "breast"
  /\ r.ret[1].breastSide = s
  /\ r.ret[1].amount = 0
  /\ r.ret[1].timestamp = T0
  /\ r.ret[1].isActive = FALSE
  /\ r.ret[1].babyId = P
  /\ Rows(r.c.st.entries) = Append(Rows(old), r.ret[1])

\* C19: with a profile P active, a breast session of side s started at T0
\* under P and stopped while P is active gives an entry, returned and
\* appended to the persisted list, of type feeding, feedingType breast,
\* breastSide s, amount 0, timestamp T0, isActive false and babyId P; this
\* for the session stored in the state and for one started now on either
\* side.
C19_CompletedBreastEntry ==
  ActiveId(store) # "" =>
    /\ store.activeBreast # <<>> /\ store.activeBreast[1].babyId = ActiveId(store) =>
         CompletedBreast(store.entries, stopBreastTimer(Ctx(store), {}, now),
                         store.activeBreast[1].side, store.activeBreast[1].startTime,
                         ActiveId(store))
    /\ \A s \in Sides :
         LET st == startBreastTimer(Ctx(store), {}, now, s)
         IN CompletedBreast(st.c.st.entries, stopBreastTimer(Ctx(st.c.st), {}, now),
                            s, now, ActiveId(store))

\* a session on the right side, started earlier under p2, is stopped under
\* p2 and joins an entry already logged
C19_Witness ==
  /\ ActiveId(store) = "p2"
  /\ store.activeBreast # <<>>
  /\ store.activeBreast[1].babyId = "p2"
  /\ store.activeBreast[1].side = "right"
  /\ store.activeBreast[1].startTime < now
  /\ Len(Rows(store.entries)) = 1
  /\ stopBreastTimer(Ctx(store), {}, now).ret # <<>>

\* the sum of the durations of the rows at the indices S, an undefined
\* duration counting for nothing
RECURSIVE SumOfDurations(_, _)
SumOfDurations(rows, S) ==
  IF S = {} THEN 0
  ELSE LET i == CHOOSE x \in S : TRUE
       IN (IF rows[i].duration = NoNum THEN 0 ELSE rows[i].duration)
            + SumOfDurations(rows, S \ {i})

\* what getDailySummary reports: null reports nothing, that is zero
Reported(ret) == IF ret = <<>> THEN NewSummary(0) ELSE ret[1]

\* the summary of date's day counts the entries of the store st that are
\* visible to the active profile and fall on that day
SummaryCounts(st, date) ==
  LET vis == getEntries(Ctx(st), {}).ret
      On(type) == { i \in 1..Len(vis) :
                      vis[i].type = type /\ Day(vis[i].timestamp) = Day(date) }
      sum == Reported(getDailySummary(Ctx(st), {}, date).ret)
  IN /\ sum.totalFeedings = Cardinality(On("feeding"))
     /\ sum.totalDiapers = Cardinality(On("diaper"))
     /\ sum.totalSleep = SumOfDurations(vis, On("sleep"))

\* C20 as stated: for every day d the summary counts the visible entries of
\* d, and a successful saveEntry of a feeding entry timestamped today,
\* whatever its babyId, raises today's totalFeedings by exactly 1 and
\* changes no other day's summary.
C20_SummaryCountsAnySave ==
  /\ \A d \in QueryDates : SummaryCounts(store, d)
  /\ \A e \in TrackedEntries(now) :
       LET s == saveEntry(Ctx(store), {}, e)
       IN e.type = "feeding" /\ s.ret = TRUE =>
            /\ Reported(getDailySummary(Ctx(s.c.st), {}, now).ret).totalFeedings
                 = Reported(getDailySummary(Ctx(store), {}, now).ret).totalFeedings + 1
            /\ \A d \in QueryDates :
                 Day(d) # Day(now) =>
                   getDailySummary(Ctx(s.c.st), {}, d).ret
                     = getDailySummary(Ctx(store), {}, d).ret

\* C20 amended: for every day d the summary counts the visible entries of
\* d (null standing for the all-zero summary), and a successful saveEntry of
\* a feeding entry timestamped today raises today's totalFeedings by exactly
\* 1 when the entry's babyId, as saveEntry left it, is absent or the id
\* getActiveBabyId() then returns, or that id is empty, and leaves it as it
\* was otherwise; in both cases no other day's summary changes.
C20_SummaryCounts ==
  /\ \A d \in QueryDates : SummaryCounts(store, d)
  /\ \A e \in TrackedEntries(now) :
       LET s == saveEntry(Ctx(store), {}, e)
           A == getActiveBabyId(Ctx(s.c.st), {}).ret
           raised == IF Falsy(s.entry.babyId) \/ s.entry.babyId = A \/ A = ""
                       THEN 1 ELSE 0
       IN e.type = "feeding" /\ s.ret = TRUE =>
            /\ Reported(getDailySummary(Ctx(s.c.st), {}, now).ret).totalFeedings
                 = Reported(getDailySummary(Ctx(store), {}, now).ret).totalFeedings
                     + raised
            /\ \A d \in QueryDates :
                 Day(d) # Day(now) =>
                   getDailySummary(Ctx(s.c.st), {}, d).ret
                     = getDailySummary(Ctx(store), {}, d).ret

\* p1 is active on the second day; the first day has a feeding of p1 and a
\* sleep of 30 minutes of p2, so today's summary is null, the first day's
\* counts one feeding and no sleep, and a feeding saved now is counted today
C20_Witness ==
  /\ ActiveId(store) = "p1"
  /\ Day(now) = 1
  /\ Len(Rows(store.entries)) = 2
  /\ \E i, j \in 1..2 :
       /\ Rows(store.entries)[i].type = "feeding"
       /\ Rows(store.entries)[i].babyId = "p1"
       /\ Rows(store.entries)[i].timestamp = 0
       /\ Rows(store.entries)[j].type = "sleep"
       /\ Rows(store.entries)[j].babyId = "p2"
       /\ Rows(store.entries)[j].duration = 30
  /\ getDailySummary(Ctx(store), {}, now).ret = <<>>
  /\ getDailySummary(Ctx(store), {}, 0).ret # <<>>
  /\ getDailySummary(Ctx(store), {}, 0).ret[1].totalFeedings = 1
  /\ getDailySummary(Ctx(store), {}, 0).ret[1].totalSleep = 0
  /\ \E e \in TrackedEntries(now) :
       /\ e.type = "feeding"
       /\ LET s == saveEntry(Ctx(store), {}, e)
          IN /\ s.ret = TRUE
             /\ getDailySummary(Ctx(s.c.st), {}, now).ret # <<>>
             /\ getDailySummary(Ctx(s.c.st), {}, now).ret[1].totalFeedings = 1

\* C22: when updatePreferences(u) completes, loadPreferences() returns
\* the record loaded before the call but for the top-level fields of u and
\* the units of u.units; every field of it is defined, one change event was
\* published and no other key was written.
C22_UpdatePreferencesMerge ==
  \A u \in PreferenceUpdates :
    LET before == loadPreferences(Ctx(store), {}).ret
        r == updatePreferences(Ctx(store), {}, u)
        after == loadPreferences(Ctx(r.c.st), {}).ret
    IN /\ ~r.thrown
       /\ DOMAIN after = DOMAIN DEFAULT_PREFERENCES
       /\ DOMAIN after.units = {"volume", "weight"}
       /\ \A k \in DOMAIN after \ {"units"} :
            after[k] = IF k \in DOMAIN u THEN u[k] ELSE before[k]
       /\ \A j \in {"volume", "weight"} :
            after.units[j] = IF "units" \in DOMAIN u /\ j \in DOMAIN u.units
                               THEN u.units[j] ELSE before.units[j]
       /\ r.c.ev = 1
       /\ \A k \in DOMAIN store \ {"preferences"} : r.c.st[k] = store[k]

\* the stored weight unit is metric, not the default, and an update of the
\* volume unit alone keeps it
C22_Witness ==
  /\ store.preferences # <<>>
  /\ store.preferences[1].units = [volume |-> "imperial", weight |-> "metric"]
  /\ store.preferences[1].darkMode = TRUE
  /\ LET r == updatePreferences(Ctx(store), {}, [units |-> [volume |-> "metric"]])
     IN loadPreferences(Ctx(r.c.st), {}).ret.units
          = [volume |-> "metric", weight |-> "metric"]

\* C23 as stated: each successful stopSleepTimer() and stopBreastTimer()
\* publishes a change event at which the store holds the completed entry in
\* the entry list and no active record of that kind.
C23_StopPublishesAfterClear ==
  LET Cleared(key, r) ==
        r.ret # <<>> /\ r.c.err = {} =>
          \E i \in 1..Len(r.c.seen) :
            /\ r.c.seen[i][key] = <<>>
            /\ r.ret[1] \in Range(Rows(r.c.seen[i].entries))
  IN /\ Cleared("activeSleep", stopSleepTimer(Ctx(store), {}, now))
     /\ Cleared("activeBreast", stopBreastTimer(Ctx(store), {}, now))

\* C25 as stated: whatever store call fails, stopSleepTimer() and
\* stopBreastTimer() return a completed entry only if it is in the persisted
\* entry list when they return, and when a store call of the inner saveEntry
\* on the entry list failed they keep the active record and return null.
C25_StopResultPersisted ==
  LET Persisted(key, r) ==
        /\ r.ret # <<>> => r.ret[1] \in Range(Rows(r.c.st.entries))
        /\ r.c.err \cap EntryCalls # {} =>
             r.ret = <<>> /\ r.c.st[key] = store[key]
  IN /\ \A F \in FailOn(EntryCalls \cup SleepCalls) :
          Persisted("activeSleep", stopSleepTimer(Ctx(store), F, now))
     /\ \A F \in FailOn(EntryCalls \cup BreastCalls) :
          Persisted("activeBreast", stopBreastTimer(Ctx(store), F, now))

\* the entries of the session of a record: those that started when it did
OfSession(rows, kind, record) ==
  { i \in 1..Len(rows) :
      IF kind = "sleep"
        THEN rows[i].type = "sleep" /\ rows[i].startTime = record.startTime
        ELSE rows[i].type = "feeding" /\ rows[i].feedingType = "breast"
               /\ rows[i].timestamp = record.startTime }

\* C26 as stated: whatever store call fails, a stop does not add a second
\* completed entry to those of the session of the stored record, and when
\* stopSleepTimer() returns null the persisted entry list is as before.
C26_OneEntryPerSession ==
  /\ \A F \in FailOn(EntryCalls \cup SleepCalls) :
       LET r == stopSleepTimer(Ctx(store), F, now)
       IN /\ r.ret = <<>> => r.c.st.entries = store.entries
          /\ store.activeSleep # <<>> =>
               Cardinality(OfSession(Rows(r.c.st.entries), "sleep",
                                     store.activeSleep[1])) <= 1
  /\ \A F \in FailOn(EntryCalls \cup BreastCalls) :
       LET r == stopBreastTimer(Ctx(store), F, now)
       IN store.activeBreast # <<>> =>
            Cardinality(OfSession(Rows(r.c.st.entries), "breast",
                                  store.activeBreast[1])) <= 1

\* the timer operations one may perform under a profile
TimerOps == {"none", "get", "stop", "start"}

\* the store after the active profile is switched to Q, one timer operation
\* of the kind is performed at t, and the active profile is switched to P
SwitchedAndBack(st, kind, op, t, Q, P) ==
  LET underQ == setActiveBabyId(Ctx(st), {}, Q).c.st
      r == IF op = "none" THEN R(Ctx(underQ), <<>>, FALSE)
           ELSE IF kind = "sleep"
             THEN IF op = "get" THEN getActiveSleep(Ctx(underQ), {})
                  ELSE IF op = "stop" THEN stopSleepTimer(Ctx(underQ), {}, t)
                  ELSE startSleepTimer(Ctx(underQ), {}, t)
             ELSE IF op = "get" THEN getActiveBreast(Ctx(underQ), {})
                  ELSE IF op = "stop" THEN stopBreastTimer(Ctx(underQ), {}, t)
                  ELSE startBreastTimer(Ctx(underQ), {}, t, "left")
  IN setActiveBabyId(Ctx(r.c.st), {}, P).c.st

\* the ids of the profile list
ListedIds(st) ==
  { Rows(st.babyProfiles)[i].id : i \in 1..Len(Rows(st.babyProfiles)) }

\* a record of the kind started under the active profile P is stored, and Q
\* is another listed profile
RunsUnder(kind, P, Q) ==
  /\ P # "" /\ P = ActiveId(store) /\ Q # P
  /\ P \in ListedIds(store) /\ Q \in ListedIds(store)
  /\ IF kind = "sleep"
       THEN store.activeSleep # <<>> /\ store.activeSleep[1].babyId = P
       ELSE store.activeBreast # <<>> /\ store.activeBreast[1].babyId = P

\* getActive of the kind on the store st
ActiveRecord(st, kind) ==
  IF kind = "sleep" THEN getActiveSleep(Ctx(st), {}).ret
  ELSE getActiveBreast(Ctx(st), {}).ret

\* C27 as stated: a timer started under P, the active profile switched to
\* Q, any timer operation performed under Q (a start included) and the
\* active profile switched back to P: getActive under P returns P's record.
C27_TimerSurvivesAnyOperation ==
  \A kind \in {"sleep", "breast"}, P, Q \in ProfileIds, op \in TimerOps :
    RunsUnder(kind, P, Q) =>
      ActiveRecord(SwitchedAndBack(store, kind, op, now, Q, P), kind)
        = ActiveRecord(store, kind)

\* C27 amended: the same with a get or a stop, or nothing, performed under
\* Q, which leave the record and the entry list as they were; a start under
\* Q replaces P's record by one of Q, and getActive under P then returns
\* null.
C27_TimerSurvivesSwitch ==
  \A kind \in {"sleep", "breast"}, P, Q \in ProfileIds, op \in TimerOps :
    RunsUnder(kind, P, Q) =>
      LET back == SwitchedAndBack(store, kind, op, now, Q, P)
          key == IF kind = "sleep" THEN "activeSleep" ELSE "activeBreast"
      IN /\ ActiveRecord(store, kind) = store[key]
         /\ IF op = "start"
              THEN /\ back[key] # <<>> /\ back[key][1].babyId = Q
                   /\ ActiveRecord(back, kind) = <<>>
              ELSE /\ ActiveRecord(back, kind) = store[key]
                   /\ back[key] = store[key]
                   /\ back.entries = store.entries

\* p1 is active with a sleep session and a breast session of its own, p2 is
\* listed, and the sleep session is returned after a switch to p2 and back
C27_Witness ==
  /\ RunsUnder("sleep", "p1", "p2")
  /\ RunsUnder("breast", "p1", "p2")
  /\ ActiveRecord(SwitchedAndBack(store, "sleep", "stop", now, "p2", "p1"), "sleep")
       = store.activeSleep

\* C28: in every state reached through the profile screen's add, edit,
\* switch and delete flows (and the tracking screen's saves and timers), the
\* stored active profile id is absent, empty or the id of a listed profile.
C28_ActiveIdListed ==
  ActiveId(store) = "" \/ ActiveId(store) \in ListedIds(store)

\* p1 is active and listed first of two profiles, with an entry of its own;
\* the delete flow on p1 leaves p2 listed and active
C28_Witness ==
  /\ ActiveId(store) = "p1"
  /\ Len(Rows(store.babyProfiles)) = 2
  /\ Rows(store.babyProfiles)[1].id = "p1"
  /\ \E e \in Range(Rows(store.entries)) : e.babyId = "p1"
  /\ LET d == handleDeleteProfile(Ctx(store), {}, "p1")
     IN /\ ListedIds(d.c.st) = {"p2"}
        /\ ActiveId(d.c.st) = "p2"

\* the rows of the entry list and the weight list of the store st that
\* carry the babyId id, and the timer records that do
RowsOf(st, id) ==
  { e \in Range(Rows(st.entries)) \cup Range(Rows(st.weights)) : e.babyId = id }
TimerRecordsOf(st, id) ==
  { r \in Range(st.activeSleep) \cup Range(st.activeBreast) : r.babyId = id }

C30_ExportImportRoundTrip ==
  Len(Rows(store.babyProfiles)) >= 1 =>
    LET exported == exportData(Ctx(store), {}, now)
        imported == importData(Ctx(exported.c.st), {}, exported.ret)
    IN /\ ~imported.thrown
       /\ Rows(imported.c.st.entries) = Rows(store.entries)
       /\ Rows(imported.c.st.weights) = Rows(store.weights)


\* the listeners one event invoked are the subscribed ones in subscription
\* order up to and including the first that throws
DeliveredUntilThrow(h, ls) ==
  /\ Len(h) <= Len(ls)
  /\ h = SubSeq(ls, 1, Len(h))
  /\ \A j \in 1..(Len(h) - 1) : h[j] \notin Throwing
  /\ Len(h) < Len(ls) => Len(h) > 0 /\ h[Len(h)] \in Throwing

\* no event of the call r invoked the listener fn
NeverHeard(r, fn) ==
  \A i \in 1..Len(r.c.heard) : fn \notin Range(r.c.heard[i])

\* C21 as stated: every event saveEntry(e) publishes invokes every
\* subscribed listener exactly once in subscription order; once a listener
\* is unsubscribed no event invokes it; and when a listener throws,
\* saveEntry(e) throws
C21_BusDelivery ==
  \A e \in NewEntries(now) :
    LET r == saveEntry(CtxBus(store, dataListeners), {}, e)
    IN /\ \A i \in 1..Len(r.c.heard) : r.c.heard[i] = dataListeners
       /\ \A fn \in Range(dataListeners) :
            NeverHeard(saveEntry(CtxBus(store, Unsubscribed(dataListeners, fn)), {}, e), fn)
       /\ r.c.lerr => r.thrown

\* C21 amended: every event saveEntry(e) publishes invokes the subscribed
\* listeners in subscription order, each once, up to and including the
\* first that throws (all of them when none throws); once a listener is
\* unsubscribed no event invokes it; and when a listener throws, saveEntry(e)
\* catches the exception: it returns false without throwing, with the entry
\* persisted
C21_BusDeliveryUntilThrow ==
  \A e \in NewEntries(now) :
    LET r == saveEntry(CtxBus(store, dataListeners), {}, e)
    IN /\ r.c.ev >= 1 /\ Len(r.c.heard) = r.c.ev
       /\ \A i \in 1..Len(r.c.heard) : DeliveredUntilThrow(r.c.heard[i], dataListeners)
       /\ \A fn \in Range(dataListeners) :
            NeverHeard(saveEntry(CtxBus(store, Unsubscribed(dataListeners, fn)), {}, e), fn)
       /\ (Range(dataListeners) \cap Throwing # {}) =>
            /\ ~r.thrown
            /\ r.ret = FALSE
            /\ \E k \in 1..Len(Rows(r.c.st.entries)) : Rows(r.c.st.entries)[k].id = e.id
       /\ (Range(dataListeners) \cap Throwing = {}) => r.ret = TRUE

\* three listeners are subscribed, the throwing one second: saveEntry's
\* event invokes the first two and saveEntry returns false
C21_Witness ==
  /\ dataListeners = <<"history", "faulty", "tracking">>
  /\ \E e \in NewEntries(now) :
       LET r == saveEntry(CtxBus(store, dataListeners), {}, e)
       IN /\ r.ret = FALSE
          /\ r.c.heard[Len(r.c.heard)] = <<"history", "faulty">>
          /\ NeverHeard(saveEntry(CtxBus(store, Unsubscribed(dataListeners, "history")), {}, e),
                        "history")

\* no loadData of the tracking screen is running
Quiet == loading["tracking"] = 0 /\ loading["reading"] = 0

\* C24: when the tracking screen's listener is subscribed and a profile is
\* stored, loadData calls of the tracking screen that are running are
\* followed by a moment at which none is
C24_ReloadQuiescence ==
  []((/\ "tracking" \in Range(dataListeners)
      /\ Rows(store.babyProfiles) # <<>>
      /\ ~Quiet)
       => <>Quiet)

=============================================================================
